---- MODULE Spec2Model ----
(***************************************************************************)
(* Model of the SkyScripter imaging session: the alignment convergence     *)
(* loop (sky_scripter/algorithms.py align_to_object), the autofocus sweep  *)
(* (auto_focus) and the session controller (capture/batch_capture.py main, *)
(* capture_image, signal_handler).                                         *)
(*                                                                         *)
(* Units.  Right ascension is kept in seconds of time (1 h = 3600 units),  *)
(* declination and errors in arcseconds, so that compute_error's           *)
(* |d_ra| / 24 * 360 * 3600 (d_ra in hours) is 15 * |d_ra| (d_ra in        *)
(* seconds of time).                                                       *)
(***************************************************************************)
EXTENDS Integers, Sequences, FiniteSets, TLC

VARIABLES
  pc,               \* control location of the (single) control thread
  stack,            \* return locations of the calls in progress
  exit_code,        \* -1 while the process runs, else its exit code
  exit_cause,       \* "none" while running, else why the process ended
  terminate,        \* batch_capture.terminate
  terminate_count,  \* batch_capture.terminate_count
  args,             \* the parsed command line (argparse.Namespace)
  al,               \* frame of align_to_object: arguments, locals, result
  af,               \* frame of auto_focus: arguments, locals, result
  focuser_pos,      \* the focuser's absolute position (device state)
  sequences,        \* capture_settings['sequences']
  mn,               \* locals of main: alt and the indices of the two for loops;
                    \* ra, dec of perform_meridian_flip
  ci,               \* frame of capture_image: duration, time waited
  child,            \* the forked capture process
  dev,              \* the mount: unparked, park commands issued
  hist,             \* history of the session: signals received, first alignment,
                    \* loop conditions evaluated since the last capture,
                    \* commands of the meridian flip being handled, pier side
                    \* read by the flip test just made, outcome of the
                    \* start_guiding just called, the latest captures of
                    \* this pass through the plan started with no dither
                    \* command before any of them (up to dither_period;
                    \* -1 when a dither was commanded and no capture yet),
                    \* the last command sent to the guider
  amf,              \* the auto_meridian_flip.py process: position in its main
                    \* loop, the values read in the current iteration
  ph,               \* a call of Phd2Client.start_guiding or dither: position,
                    \* time waited, the response in hand, the value returned
  fs                \* the capture directory: the capture-NNNNN.fits names that
                    \* exist, the name chosen for the capture being made

vars == <<pc, stack, exit_code, exit_cause, terminate, terminate_count, args,
          al, af, focuser_pos, sequences, mn, ci, child, dev, hist, amf, ph, fs>>

\* What the steps of one component leave alone.
sessv  == <<sequences, mn, ci, child, dev, hist>>
xExit  == <<terminate, terminate_count, args, al, af, focuser_pos, child, dev,
            hist, amf, ph, fs>>
xAlign == <<exit_code, exit_cause, terminate, terminate_count, args, af,
            focuser_pos, sessv, amf, ph, fs>>
xFocus == <<exit_code, exit_cause, terminate, terminate_count, args, al, sessv,
            amf, ph, fs>>
xMain  == <<exit_code, exit_cause, terminate, terminate_count, args, sequences,
            af, focuser_pos, amf, ph, fs>>

----------------------------------------------------------------------------
(* Bounds of the model. *)

\* Largest max_iterations argument tried when align_to_object is run alone.
MaxIter == 3

----------------------------------------------------------------------------
(* Program constants. *)

\* Default of align_to_object's max_iterations parameter.
DefaultMaxIterations == 10

\* Python's (None, None), as against a pair <<ra, dec>>.
None == <<>>

\* Target of the alignment: RA 5.5 h (19800 s), Dec -5.0 deg (-18000").
Target == <<19800, -18000>>

\* Offsets (seconds of time, arcseconds) of the coordinates the plate solver
\* may report, relative to the target: errors of 0, 25 and 30 arcseconds.
SolveOffsets == {<<0, 0>>, <<1, 20>>, <<2, 0>>}

\* Thresholds (arcseconds) tried; 20 is the default of --align-threshold.
Thresholds == {0, 20, 30}

----------------------------------------------------------------------------
(* Pure helpers. *)

Abs(x) == IF x < 0 THEN -x ELSE x

\* Floor of the square root.  For an integer t, ISqrt(n) < t iff sqrt(n) < t,
\* so comparisons of an error against an integer threshold are exact.
ISqrt(n) == CHOOSE r \in 0..n : r * r <= n /\ n < (r + 1) * (r + 1)

\* align_to_object.compute_error: error in arcseconds (floor).
compute_error(ra_t, dec_t, ra_s, dec_s) ==
  LET ra_error  == Abs(ra_t - ra_s) * 15
      dec_error == Abs(dec_t - dec_s)
  IN  ISqrt(ra_error * ra_error + dec_error * dec_error)

----------------------------------------------------------------------------
(* Process exit and call/return. *)

Running == exit_code = -1

\* The locals of main and of capture_image before they are assigned.
MainIdle == [alt |-> 0, alt_read |-> FALSE, seq |-> 0, i |-> 0, ra_dec |-> None]
CaptureIdle == [duration |-> 0, elapsed |-> 0]

\* The process is gone: the call stack and the locals of main and of
\* capture_image with it.  The devices, and what align_to_object and
\* auto_focus had done, stay as they were.
Exited(cause, code) ==
  /\ pc' = "exited"
  /\ exit_code' = code
  /\ exit_cause' = cause
  /\ stack' = <<>>
  /\ sequences' = <<>>
  /\ mn' = MainIdle
  /\ ci' = CaptureIdle

\* The process ends here with `code`: sys.exit in exec_or_fail / confirm_abort,
\* or an uncaught exception.
Die(cause, code) ==
  /\ Exited(cause, code)
  /\ UNCHANGED xExit

\* exec_or_fail: the command's return code is not allowed -> sys.exit(1).
exec_or_fail_exit == Die("cmd_fail", 1)

\* IndiClient.read / write run a command through exec_or_fail unless simulating.
indi_cmd_fails == ~args.simulate /\ exec_or_fail_exit

Return == pc' = Head(stack) /\ stack' = Tail(stack)

Call(entry, ret) == pc' = entry /\ stack' = <<ret>> \o stack

----------------------------------------------------------------------------
(* align_to_object (sky_scripter/algorithms.py). *)

AlignFrame(max_it, thr, ra_t, dec_t) ==
  [max_iterations |-> max_it, threshold |-> thr,
   ra_target |-> ra_t, dec_target |-> dec_t,
   iteration |-> 0, ra_dec |-> None, error |-> -1,   \* -1: not computed
   result |-> "pending",
   \* history of this call: commands issued, commands of the current
   \* iteration in order, first iteration whose error was below threshold
   gotos |-> 0, captures |-> 0, solves |-> 0, syncs |-> 0,
   iter_cmds |-> <<>>, first_below |-> 0,
   \* how the goto just issued ended, until the next command
   slew |-> ""]

AlignIssue(cmd) ==
  [al EXCEPT !.iter_cmds = Append(@, cmd),
             !.gotos    = IF cmd = "goto" THEN @ + 1 ELSE @,
             !.captures = IF cmd = "capture" THEN @ + 1 ELSE @,
             !.solves   = IF cmd = "solve" THEN @ + 1 ELSE @,
             !.syncs    = IF cmd = "sync" THEN @ + 1 ELSE @]

\* The loop test, wrong: one iteration too many.
align_loop_off_by_one ==
  /\ pc = "align_loop"
  /\ IF al.iteration <= al.max_iterations
       THEN /\ al' = [al EXCEPT !.iteration = @ + 1, !.iter_cmds = <<>>,
                                !.ra_dec = None, !.error = -1]
            /\ pc' = "align_goto"
       ELSE /\ pc' = "align_end"
            /\ al' = al
  /\ UNCHANGED <<stack, xAlign>>

\* while iteration < max_iterations: iteration += 1
\* (ra, dec and error of the iteration before are not read again: they are
\* assigned before every use, and are dropped here)
align_loop ==
  /\ pc = "align_loop"
  /\ IF al.iteration < al.max_iterations
       THEN /\ al' = [al EXCEPT !.iteration = @ + 1, !.iter_cmds = <<>>,
                                !.ra_dec = None, !.error = -1]
            /\ pc' = "align_goto"
       ELSE /\ pc' = "align_end"
            /\ al' = al
  /\ UNCHANGED <<stack, xAlign>>

\* IndiMount.goto: polls get_ra_dec until both errors are below 10 arcsec,
\* or logs "Slew timeout" after 30 s; it returns in both cases.
SlewEnds == {"finished", "timeout"}

\* mount.goto(ra_target, dec_target)
align_goto ==
  /\ pc = "align_goto"
  /\ \/ /\ \E s \in SlewEnds : al' = [AlignIssue("goto") EXCEPT !.slew = s]
        /\ pc' = "align_capture"
        /\ UNCHANGED <<stack, xAlign>>
     \/ indi_cmd_fails

\* camera.capture_image(filename)
align_capture ==
  /\ pc = "align_capture"
  /\ \/ /\ al' = [AlignIssue("capture") EXCEPT !.slew = ""]
        /\ pc' = "align_solve"
        /\ UNCHANGED <<stack, xAlign>>
     \/ exec_or_fail_exit

\* ra, dec = run_plate_solve_astap(filename): a solution, or (None, None)
\* when the output holds no solution, or exit when astap's return code is bad.
align_solve ==
  /\ pc = "align_solve"
  /\ \/ /\ \E off \in SolveOffsets :
             al' = [AlignIssue("solve") EXCEPT
                      !.ra_dec = <<al.ra_target + off[1], al.dec_target + off[2]>>]
        /\ pc' = "align_sync"
        /\ UNCHANGED <<stack, xAlign>>
     \/ /\ al' = [AlignIssue("solve") EXCEPT !.ra_dec = None]
        /\ pc' = "align_sync"
        /\ UNCHANGED <<stack, xAlign>>
     \/ exec_or_fail_exit

\* mount.sync(ra, dec): the three property writes (TRACK_ON, SYNC, RA/DEC).
align_sync ==
  /\ pc = "align_sync"
  /\ \/ /\ al' = AlignIssue("sync")
        /\ pc' = "align_sync_check"
        /\ UNCHANGED <<stack, xAlign>>
     \/ indi_cmd_fails

\* mount.sync, after the writes: ra_read, dec_read = get_ra_dec(), then
\* abs(ra - ra_read), which raises TypeError when ra is None.
align_sync_check ==
  /\ pc = "align_sync_check"
  /\ \/ /\ al.ra_dec # None
        /\ pc' = "align_check"
        /\ UNCHANGED <<stack, al, xAlign>>
     \/ /\ al.ra_dec = None
        /\ Die("exception", 1)
     \/ indi_cmd_fails

\* The comparison, wrong: an error equal to the threshold counts as aligned.
align_check_le ==
  /\ pc = "align_check"
  /\ LET error == compute_error(al.ra_target, al.dec_target, al.ra_dec[1], al.ra_dec[2])
         fb    == IF al.first_below = 0 /\ error < al.threshold
                    THEN al.iteration ELSE al.first_below
     IN  IF error <= al.threshold
           THEN /\ al' = [al EXCEPT !.error = error, !.first_below = fb,
                                    !.result = "True"]
                /\ Return
           ELSE /\ al' = [al EXCEPT !.error = error, !.first_below = fb]
                /\ pc' = "align_loop"
                /\ stack' = stack
  /\ UNCHANGED xAlign

\* error = compute_error(...); if error < threshold: return True
align_check ==
  /\ pc = "align_check"
  /\ LET error == compute_error(al.ra_target, al.dec_target, al.ra_dec[1], al.ra_dec[2])
         fb    == IF al.first_below = 0 /\ error < al.threshold
                    THEN al.iteration ELSE al.first_below
     IN  IF error < al.threshold
           THEN /\ al' = [al EXCEPT !.error = error, !.first_below = fb,
                                    !.result = "True"]
                /\ Return
           ELSE /\ al' = [al EXCEPT !.error = error, !.first_below = fb]
                /\ pc' = "align_loop"
                /\ stack' = stack
  /\ UNCHANGED xAlign

\* if iteration == max_iterations: return False   (else falls off: None)
align_end ==
  /\ pc = "align_end"
  /\ al' = [al EXCEPT !.result = IF al.iteration = al.max_iterations
                                   THEN "False" ELSE "None"]
  /\ Return
  /\ UNCHANGED xAlign

AlignLabels == {"align_loop", "align_goto", "align_capture", "align_solve",
                "align_sync", "align_sync_check", "align_check", "align_end"}

InAlign == pc \in AlignLabels

align_to_object ==
  \/ align_loop \/ align_goto \/ align_capture \/ align_solve
  \/ align_sync \/ align_sync_check \/ align_check \/ align_end

----------------------------------------------------------------------------
(* auto_focus and measure_stars (sky_scripter/algorithms.py). *)

\* Default of auto_focus's backlash parameter.
DefaultBacklash == 50

\* Initial value of min_fwhm.
InitialMinFwhm == 100

\* What run_star_detect_siril may report: (num_stars, fwhm), or None when the
\* output has no "Found N ... stars" line.
StarMeasurements == {<<12, 2>>, <<12, 3>>, <<12, 6>>}

\* list(range(lo, hi + 1, step)), step > 0
RangeSeq(lo, hi, step) ==
  IF hi < lo THEN <<>>
  ELSE [k \in 1..((hi - lo) \div step + 1) |-> lo + (k - 1) * step]

\* int(n / d): truncation toward zero, d # 0
TruncDiv(n, d) ==
  LET q == Abs(n) \div Abs(d)
  IN  IF (n < 0) = (d < 0) THEN q ELSE -q

AutoFocusFrame(fmin, fmax, fstep, backlash) ==
  [focus_min |-> fmin, focus_max |-> fmax, focus_step |-> fstep,
   backlash |-> backlash,
   initial_focus |-> -1, initial_fwhm |-> -1, meas |-> None,
   min_fwhm |-> InitialMinFwhm, focus_at_min_fwhm |-> fmin,
   focus_test_points |-> <<>>, f |-> -1, focus_results |-> <<>>,
   best_focus |-> -1, concave_up |-> FALSE, result |-> "pending",
   \* history of this call: set_focus targets in order, the part of the
   \* procedure, the commands of the current measurement in order
   moves |-> <<>>, phase |-> "initial", step_cmds |-> <<>>]

\* Sums over the valid samples, in sweep-index coordinates
\* u = (x - focus_min) / focus_step (the fitted vertex and the sign of the
\* leading coefficient do not depend on this change of variable).
RECURSIVE SumUY(_, _, _, _)
SumUY(res, fmin, fstep, k) ==
  IF res = <<>> THEN [s |-> 0, t |-> 0]
  ELSE LET u    == (Head(res)[1] - fmin) \div fstep
           uk   == IF k = 0 THEN 1 ELSE IF k = 1 THEN u
                   ELSE IF k = 2 THEN u * u ELSE IF k = 3 THEN u * u * u
                   ELSE u * u * u * u
           rest == SumUY(Tail(res), fmin, fstep, k)
       IN  [s |-> rest.s + uk, t |-> rest.t + uk * Head(res)[3]]

Det3(m) ==
    m[1][1] * (m[2][2] * m[3][3] - m[2][3] * m[3][2])
  - m[1][2] * (m[2][1] * m[3][3] - m[2][3] * m[3][1])
  + m[1][3] * (m[2][1] * m[3][2] - m[2][2] * m[3][1])

\* np.polyfit(X, Y, 2) on three or more samples: the least-squares quadratic
\* by the normal equations (Cramer's rule).  The coefficients in u are
\* da / d and db / d with d > 0.
polyfit2(res, fmin, fstep) ==
  LET S(k) == SumUY(res, fmin, fstep, k).s
      T(k) == SumUY(res, fmin, fstep, k).t
  IN  [d  |-> Det3(<< <<S(4), S(3), S(2)>>, <<S(3), S(2), S(1)>>, <<S(2), S(1), S(0)>> >>),
       da |-> Det3(<< <<T(2), S(3), S(2)>>, <<T(1), S(2), S(1)>>, <<T(0), S(1), S(0)>> >>),
       db |-> Det3(<< <<S(4), T(2), S(2)>>, <<S(3), T(1), S(1)>>, <<S(2), T(0), S(0)>> >>)]

\* The fitted vertex, wrong: rounded to the nearest integer (leading
\* coefficient > 0).
fit_vertex_rounded(fit, fmin, fstep) ==
  (2 * (2 * fit.da * fmin - fstep * fit.db) + 2 * fit.da) \div (4 * fit.da)

\* int(minima), minima = -p[1] / (2 * p[0]) in focuser steps:
\* focus_min + focus_step * (-db / (2 * da))
fit_vertex(fit, fmin, fstep) ==
  TruncDiv(2 * fit.da * fmin - fstep * fit.db, 2 * fit.da)

\* IndiFocuser.set_focus(value): the write, then polling until the position is
\* reached or 30 s have passed; it returns in both cases.  When simulating
\* nothing is written and the focuser stays where it is.
set_focus(value) ==
  \E reached \in BOOLEAN :
    focuser_pos' = IF reached /\ ~args.simulate THEN value ELSE focuser_pos

AfMove(value) == [af EXCEPT !.moves = Append(@, value),
                            !.step_cmds = Append(@, "set_focus")]

\* initial_focus = focuser.get_focus(); measure_stars(camera)
af_start ==
  /\ pc = "af_start"
  /\ \/ /\ af' = [af EXCEPT !.initial_focus = focuser_pos]
        /\ Call("ms_capture", "af_init_check")
        /\ UNCHANGED <<focuser_pos, xFocus>>
     \/ indi_cmd_fails

\* measure_stars: camera.capture_image(image_file)
ms_capture ==
  /\ pc = "ms_capture"
  /\ \/ /\ af' = [af EXCEPT !.step_cmds = Append(@, "capture")]
        /\ pc' = "ms_detect"
        /\ UNCHANGED <<stack, focuser_pos, xFocus>>
     \/ exec_or_fail_exit

\* measure_stars: num_stars, fwhm = run_star_detect_siril(image_file)
ms_detect ==
  /\ pc = "ms_detect"
  /\ \E m \in StarMeasurements \cup {None} :
       af' = [af EXCEPT !.meas = m, !.step_cmds = Append(@, "measure")]
  /\ Return
  /\ UNCHANGED <<focuser_pos, xFocus>>

\* if initial_fwhm is None: return None, None, None
af_init_check ==
  /\ pc = "af_init_check"
  /\ IF af.meas = None
       THEN /\ af' = [af EXCEPT !.result = "None3"]
            /\ Return
       ELSE /\ af' = [af EXCEPT !.initial_fwhm = af.meas[2], !.phase = "pre",
                                !.step_cmds = <<>>]
            /\ pc' = "af_pre_move"
            /\ stack' = stack
  /\ UNCHANGED <<focuser_pos, xFocus>>

\* focuser.set_focus(focus_min - backlash); measure_stars(camera)
af_pre_move ==
  /\ pc = "af_pre_move"
  /\ \/ /\ set_focus(af.focus_min - af.backlash)
        /\ af' = AfMove(af.focus_min - af.backlash)
        /\ Call("ms_capture", "af_pre_check")
        /\ UNCHANGED xFocus
     \/ indi_cmd_fails

\* The test after the pre-sweep measurement, wrong: the comparison is turned
\* round, the sweep goes on when the FWHM below focus_min is the smaller one.
af_pre_check_inverted ==
  /\ pc = "af_pre_check"
  /\ IF af.meas # None /\ af.meas[2] > af.initial_fwhm
       THEN /\ af' = [af EXCEPT !.result = "None3"]
            /\ Return
       ELSE /\ af' = [af EXCEPT
                        !.min_fwhm = InitialMinFwhm,
                        !.focus_at_min_fwhm = af.focus_min,
                        !.focus_test_points =
                           RangeSeq(af.focus_min, af.focus_max, af.focus_step),
                        !.phase = "sweep"]
            /\ pc' = "af_sweep_loop"
            /\ stack' = stack
  /\ UNCHANGED <<focuser_pos, xFocus>>

\* if min_focuser_fwhm is not None and min_focuser_fwhm < initial_fwhm:
\*   return None, None, None
\* else: min_fwhm = 100; focus_at_min_fwhm = focus_min; the test points
af_pre_check ==
  /\ pc = "af_pre_check"
  /\ IF af.meas # None /\ af.meas[2] < af.initial_fwhm
       THEN /\ af' = [af EXCEPT !.result = "None3"]
            /\ Return
       ELSE /\ af' = [af EXCEPT
                        !.min_fwhm = InitialMinFwhm,
                        !.focus_at_min_fwhm = af.focus_min,
                        !.focus_test_points =
                           RangeSeq(af.focus_min, af.focus_max, af.focus_step),
                        !.phase = "sweep"]
            /\ pc' = "af_sweep_loop"
            /\ stack' = stack
  /\ UNCHANGED <<focuser_pos, xFocus>>

\* while len(focus_test_points) > 0: f = sorted(focus_test_points).pop(0)
\* (the list is built increasing, so sorting leaves it as it is)
af_sweep_loop ==
  /\ pc = "af_sweep_loop"
  /\ IF Len(af.focus_test_points) > 0
       THEN /\ af' = [af EXCEPT !.f = Head(af.focus_test_points),
                                !.focus_test_points = Tail(@),
                                !.step_cmds = <<>>]
            /\ pc' = "af_move"
       ELSE /\ af' = [af EXCEPT !.phase = "fit", !.step_cmds = <<>>]
            /\ pc' = "af_fit"
  /\ UNCHANGED <<stack, focuser_pos, xFocus>>

\* The sweep step, wrong: the measurement is taken before the focuser is moved.
af_move_after_measure ==
  /\ pc = "af_move"
  /\ \/ /\ af' = af
        /\ focuser_pos' = focuser_pos
        /\ Call("ms_capture", "af_record")
        /\ UNCHANGED xFocus
     \/ indi_cmd_fails

\* focuser.set_focus(f); measure_stars(camera)
af_move ==
  /\ pc = "af_move"
  /\ \/ /\ set_focus(af.f)
        /\ af' = AfMove(af.f)
        /\ Call("ms_capture", "af_record")
        /\ UNCHANGED xFocus
     \/ indi_cmd_fails

\* if num_stars is not None and fwhm is not None: focus_results.append(...)
af_record ==
  /\ pc = "af_record"
  /\ IF af.meas # None
       THEN af' = [af EXCEPT
                     !.focus_results = Append(@, <<af.f, af.meas[1], af.meas[2]>>),
                     !.min_fwhm = IF af.meas[2] < @ THEN af.meas[2] ELSE @,
                     !.focus_at_min_fwhm = IF af.meas[2] < af.min_fwhm
                                             THEN af.f ELSE @]
       ELSE af' = af
  /\ pc' = "af_sweep_loop"
  /\ UNCHANGED <<stack, focuser_pos, xFocus>>

\* The fit of an empty sweep, wrong: the call completes with the focuser sent
\* back to where it was before the call.
af_fit_empty_returns_initial ==
  /\ Len(af.focus_results) = 0
  /\ af' = [af EXCEPT !.best_focus = af.initial_focus]
  /\ pc' = "af_final_pre"
  /\ UNCHANGED <<stack, focuser_pos, xFocus>>

\* X = [], Y = []: np.polyfit raises TypeError ("expected non-empty vector
\* for x"); nothing in auto_focus or its callers catches it.
af_fit_empty ==
  /\ Len(af.focus_results) = 0
  /\ Die("exception", 1)

\* p = np.polyfit(X, Y, 2); minima = -p[1] / (2 * p[0]); best_focus = int(minima)
\* if p[0] <= 0: best_focus = focus_at_min_fwhm  else: focus_at_min_fwhm = int(minima)
af_fit ==
  /\ pc = "af_fit"
  /\ LET n   == Len(af.focus_results)
         fit == polyfit2(af.focus_results, af.focus_min, af.focus_step)
     IN  \/ af_fit_empty
         \/ \* one sample: the minimum-norm solution y0/3 * (1/x0^2, 1/x0, 1),
            \* leading coefficient > 0, vertex -x0 / 2
            /\ n = 1
            /\ LET v == TruncDiv(-af.focus_results[1][1], 2)
               IN  af' = [af EXCEPT !.best_focus = v, !.focus_at_min_fwhm = v,
                                    !.concave_up = TRUE]
            /\ pc' = "af_final_pre"
            /\ UNCHANGED <<stack, focuser_pos, xFocus>>
         \/ \* two samples: an underdetermined fit; the sign of the leading
            \* coefficient and the vertex are left open here
            /\ n = 2
            /\ \/ af' = [af EXCEPT !.best_focus = af.focus_at_min_fwhm,
                                   !.concave_up = FALSE]
               \/ \E v \in {TruncDiv(-af.focus_results[1][1], 2), af.focus_min} :
                    af' = [af EXCEPT !.best_focus = v, !.focus_at_min_fwhm = v,
                                     !.concave_up = TRUE]
            /\ pc' = "af_final_pre"
            /\ UNCHANGED <<stack, focuser_pos, xFocus>>
         \/ /\ n >= 3 /\ fit.da > 0
            /\ LET v == fit_vertex(fit, af.focus_min, af.focus_step)
               IN  af' = [af EXCEPT !.best_focus = v, !.focus_at_min_fwhm = v,
                                    !.concave_up = TRUE]
            /\ pc' = "af_final_pre"
            /\ UNCHANGED <<stack, focuser_pos, xFocus>>
         \/ /\ n >= 3 /\ fit.da < 0
            /\ af' = [af EXCEPT !.best_focus = af.focus_at_min_fwhm,
                                !.concave_up = FALSE]
            /\ pc' = "af_final_pre"
            /\ UNCHANGED <<stack, focuser_pos, xFocus>>
         \/ \* p[0] == 0: minima is inf or nan and int(minima) raises
            \* OverflowError / ValueError before the p[0] <= 0 test
            /\ n >= 3 /\ fit.da = 0
            /\ Die("exception", 1)

\* focuser.set_focus(focus_min - backlash)
af_final_pre ==
  /\ pc = "af_final_pre"
  /\ \/ /\ set_focus(af.focus_min - af.backlash)
        /\ af' = [AfMove(af.focus_min - af.backlash) EXCEPT !.phase = "final"]
        /\ pc' = "af_final_move"
        /\ UNCHANGED <<stack, xFocus>>
     \/ indi_cmd_fails

\* focuser.set_focus(best_focus)
af_final_move ==
  /\ pc = "af_final_move"
  /\ \/ /\ set_focus(af.best_focus)
        /\ af' = AfMove(af.best_focus)
        /\ pc' = "af_plot"
        /\ UNCHANGED <<stack, xFocus>>
     \/ indi_cmd_fails

\* the plot; return focus_at_min_fwhm, min_fwhm, focus_results, plot_file
af_plot ==
  /\ pc = "af_plot"
  /\ af' = [af EXCEPT !.result = "ok"]
  /\ Return
  /\ UNCHANGED <<focuser_pos, xFocus>>

FocusLabels == {"af_start", "ms_capture", "ms_detect", "af_init_check",
                "af_pre_move", "af_pre_check", "af_sweep_loop", "af_move",
                "af_record", "af_fit", "af_final_pre", "af_final_move", "af_plot"}

InFocus == pc \in FocusLabels

auto_focus ==
  \/ af_start \/ ms_capture \/ ms_detect \/ af_init_check \/ af_pre_move
  \/ af_pre_check \/ af_sweep_loop \/ af_move \/ af_record \/ af_fit
  \/ af_final_pre \/ af_final_move \/ af_plot

\* Largest number of positions of a sweep when auto_focus is run alone.
MaxSweep == 3

\* The focuser's position and the step of the sweep when auto_focus is run alone.
StartFocus == <<120, 6>>

----------------------------------------------------------------------------
(* get_time_to_flip / need_meridian_flip (capture/batch_capture.py).        *)
(* Hour angles, RA and LST are in tenths of an hour; the result in seconds. *)

Max(a, b) == IF a > b THEN a ELSE b

\* ha = lst - ra; if ha > 12: ha -= 24   (tenths of an hour)
hour_angle(ra, lst) == IF lst - ra > 120 THEN lst - ra - 240 ELSE lst - ra

\* get_time_to_flip, wrong: the West branch is not clamped at zero.
get_time_to_flip_unclamped(ra, lst, pier_side, meridian_flip_angle) ==
  LET ha == hour_angle(ra, lst)
  IN  IF pier_side = "East"
        THEN (120 + meridian_flip_angle - ha) * 360
        ELSE (meridian_flip_angle - ha) * 360

get_time_to_flip(ra, lst, pier_side, meridian_flip_angle) ==
  LET ha == hour_angle(ra, lst)
  IN  IF pier_side = "East"
        THEN (120 + meridian_flip_angle - ha) * 360
        ELSE Max(0, (meridian_flip_angle - ha) * 360)

need_meridian_flip(ra, lst, pier_side, meridian_flip_angle) ==
  get_time_to_flip(ra, lst, pier_side, meridian_flip_angle) <= 0

\* What the mount may report when polled: RA and LST (tenths of an hour) and
\* the pier side.
MountRa == {55}
MountDec == {-18000}
MountLst == {0, 60}
PierSides == {"East", "West", "Unknown"}

\* Altitudes (degrees) the mount may be at when read.
Altitudes == {0, 5}

----------------------------------------------------------------------------
(* The session: main, run_alignment, run_auto_focus, handle_meridian_flip,  *)
(* capture_image, signal_handler (capture/batch_capture.py).                *)

\* Bounds of the session model.
MaxFilters == 2      \* entries of the exposure plan
MaxRepeat == 2       \* repeat count of an entry
ExposureTicks == 2   \* length of an exposure, in 0.1 s sleeps of capture_image
DitherPeriod == 2    \* args.dither_period
FocusSteps == 1      \* args.focus_steps

\* Defaults of the command line.
DefaultAlignThreshold == 20
DefaultMinAltitude == 0
DefaultFlipAngle == 3        \* 0.3 h
DefaultFocusStepSize == 6

\* settings['sequences']: the first 1..MaxFilters entries of the plan in the
\* source, each repeated 1..MaxRepeat times.
FilterNames == <<"L", "R", "G", "B">>

Plans ==
  {[k \in 1..n |-> [filter |-> FilterNames[k], exposure |-> ExposureTicks,
                    repeat |-> r]] : n \in 1..MaxFilters, r \in 1..MaxRepeat}

AlignIdle == [AlignFrame(0, 0, 0, 0) EXCEPT !.result = "idle"]
AutoFocusIdle == AutoFocusFrame(0, 0, 1, DefaultBacklash)

\* signal_handler, wrong: the second signal already exits.
signal_handler_second_exits ==
  /\ Running
  /\ IF terminate_count > 0
       THEN /\ Exited("forced", 1)
            /\ terminate' = TRUE
            /\ terminate_count' = terminate_count
       ELSE /\ terminate' = TRUE
            /\ terminate_count' = terminate_count + 1
            /\ UNCHANGED <<pc, stack, exit_code, exit_cause, sequences, mn, ci>>
  /\ hist' = [hist EXCEPT !.signals = @ + 1,
                          !.term_in_capture =
                             @ \/ (pc = "cap_wait" /\ ci.elapsed < ci.duration)]
  /\ UNCHANGED <<args, al, af, focuser_pos, child, dev, amf, ph, fs>>

\* signal_handler (SIGINT, SIGTERM): runs between any two steps of the
\* control thread.  sys.exit(1) unwinds main: nothing after it runs.
signal_handler ==
  /\ Running
  /\ IF terminate_count > 1
       THEN /\ Exited("forced", 1)
            /\ terminate' = TRUE
            /\ terminate_count' = terminate_count
       ELSE /\ terminate' = TRUE
            /\ terminate_count' = terminate_count + 1
            /\ UNCHANGED <<pc, stack, exit_code, exit_cause, sequences, mn, ci>>
  /\ hist' = [hist EXCEPT !.signals = @ + 1,
                          !.term_in_capture =
                             @ \/ (pc = "cap_wait" /\ ci.elapsed < ci.duration)]
  /\ UNCHANGED <<args, al, af, focuser_pos, child, dev, amf, ph, fs>>

\* check_disk_space, wrong: the operator's 'y' ends the process with code 0.
m_disk_decline_exits_zero ==
  /\ pc = "m_disk"
  /\ \/ /\ pc' = "m_setup"
        /\ UNCHANGED <<stack, sessv, al, xMain>>
     \/ Die("declined", 0)

\* check_disk_space: below 20 GB free, confirm_abort asks; 'y' exits with 1.
m_disk ==
  /\ pc = "m_disk"
  /\ \/ /\ pc' = "m_setup"
        /\ UNCHANGED <<stack, sessv, al, xMain>>
     \/ Die("declined", 1)

\* parse_coordinates, set_up_capture_directory, load_capture_settings, the
\* device objects: sys.exit(1) when there is no usable target.
m_setup ==
  /\ pc = "m_setup"
  /\ \/ /\ pc' = "m_unpark"
        /\ UNCHANGED <<stack, sessv, al, xMain>>
     \/ Die("no_target", 1)

\* mount.unpark(): write("TELESCOPE_PARK", "UNPARK", "On")
m_unpark ==
  /\ pc = "m_unpark"
  /\ \/ /\ dev' = [dev EXCEPT !.unparked = ~args.simulate]
        /\ pc' = "m_unpark_wait"
        /\ UNCHANGED <<stack, sequences, mn, ci, child, hist, al, xMain>>
     \/ indi_cmd_fails

\* mount.unpark(): while self.read("TELESCOPE_PARK.UNPARK") != "On": sleep(1)
\* When simulating, read returns 0 and the loop never ends.
m_unpark_wait ==
  /\ pc = "m_unpark_wait"
  /\ \/ /\ ~args.simulate
        /\ pc' = "m_phd2"
        /\ UNCHANGED <<stack, sessv, al, xMain>>
     \/ /\ pc' = "m_unpark_wait"
        /\ UNCHANGED <<stack, sessv, al, xMain>>
     \/ indi_cmd_fails

\* phd2client.connect(); phd2client.stop_guiding(); run_alignment(...)
\* With PHD2 out of reach connect logs the error and send_command raises.
m_phd2 ==
  /\ pc = "m_phd2"
  /\ \/ /\ Call("ra_stop_guiding", "m_log_state")
        /\ hist' = [hist EXCEPT !.guider = "stop"]
        /\ UNCHANGED <<sequences, mn, ci, child, dev, al, xMain>>
     \/ Die("exception", 1)

\* run_alignment: phd2client.stop_guiding()
ra_stop_guiding ==
  /\ pc = "ra_stop_guiding"
  /\ pc' = "ra_filter"
  /\ hist' = [hist EXCEPT !.guider = "stop"]
  /\ UNCHANGED <<stack, sequences, mn, ci, child, dev, al, xMain>>

\* run_alignment: camera.change_filter('L'); set_capture_settings(...);
\* align_to_object(mount, camera, ra, dec, args.align_threshold)
ra_filter ==
  /\ pc = "ra_filter"
  /\ \/ /\ al' = AlignFrame(DefaultMaxIterations, args.align_threshold,
                            Target[1], Target[2])
        /\ Call("align_loop", "ra_start_guiding")
        /\ UNCHANGED <<sessv, xMain>>
     \/ exec_or_fail_exit

\* Phd2Client.start_guiding: True when guiding has settled, False (or None)
\* on a timeout, a failed settle or a failed calibration.
GuideStarts == {"started", "failed"}

\* run_alignment: the result of align_to_object is dropped;
\* phd2client.start_guiding(), its result dropped as well; return
ra_start_guiding ==
  /\ pc = "ra_start_guiding"
  /\ \E g \in GuideStarts :
       hist' = [hist EXCEPT !.init_align =
                              IF Head(stack) = "m_log_state" THEN al.result ELSE @,
                            !.guide_start = g, !.guider = "start"]
  /\ al' = AlignIdle
  /\ Return
  /\ UNCHANGED <<sequences, mn, ci, child, dev, xMain>>

\* print_and_log_mount_state(mount, args): reads of the mount
m_log_state ==
  /\ pc = "m_log_state"
  /\ \/ /\ pc' = "m_initial_focus"
        /\ hist' = [hist EXCEPT !.guide_start = ""]
        /\ UNCHANGED <<stack, sequences, mn, ci, child, dev, al, xMain>>
     \/ indi_cmd_fails

\* if not args.skip_initial_focus: run_auto_focus(camera, focuser, "L", args)
m_initial_focus ==
  /\ pc = "m_initial_focus"
  /\ IF args.skip_initial_focus
       THEN pc' = "m_read_alt" /\ stack' = stack
       ELSE Call("raf_filter", "m_read_alt")
  /\ UNCHANGED <<sessv, al, xMain>>

\* run_auto_focus: the filter is valid; camera.change_filter(filter);
\* set_capture_settings; if args.simulate: return (not reached: a simulated
\* session never leaves mount.unpark); current_focus = focuser.get_focus();
\* auto_focus(focuser, camera, focus_min, focus_max, focus_step)
raf_filter ==
  /\ pc = "raf_filter"
  /\ \/ /\ af' = AutoFocusFrame(
                   focuser_pos - args.focus_step_size * args.focus_steps,
                   focuser_pos + args.focus_step_size * args.focus_steps,
                   args.focus_step_size, DefaultBacklash)
        /\ Call("af_start", "raf_unpack")
        /\ UNCHANGED <<focuser_pos, xFocus>>
     \/ exec_or_fail_exit

\* focus_at_min_fwhm, min_fwhm, focus_results, plot_file = auto_focus(...):
\* unpacking the three values of a failed auto_focus raises ValueError.
raf_unpack ==
  /\ pc = "raf_unpack"
  /\ \/ /\ af.result = "ok"
        /\ af' = AutoFocusIdle
        /\ Return
        /\ UNCHANGED <<focuser_pos, xFocus>>
     \/ /\ af.result = "None3"
        /\ Die("exception", 1)

\* t_last_focus = time.time(); alt, _ = mount.get_alt_az();
\* sequences = capture_settings['sequences']
m_read_alt ==
  /\ pc = "m_read_alt"
  /\ \/ /\ \E a \in Altitudes : mn' = [mn EXCEPT !.alt = a, !.alt_read = TRUE]
        /\ sequences' \in Plans
        /\ pc' = "m_while"
        /\ UNCHANGED <<stack, ci, child, dev, hist, al, af, focuser_pos,
                       exit_code, exit_cause, terminate, terminate_count, args,
                       amf, ph, fs>>
     \/ indi_cmd_fails

\* while (alt > args.min_altitude or args.simulate) and not terminate:
m_while ==
  /\ pc = "m_while"
  /\ IF (mn.alt > args.min_altitude \/ args.simulate) /\ ~terminate
       THEN /\ mn' = [mn EXCEPT !.seq = 1]
            /\ pc' = "m_for_seq"
       ELSE /\ mn' = mn
            /\ pc' = "m_park"
  /\ hist' = [hist EXCEPT !.checks =
                             IF mn.alt > args.min_altitude \/ args.simulate
                               THEN @ \o <<"altitude", "terminate">>
                               ELSE @ \o <<"altitude">>,
                          !.undithered = 0]
  /\ UNCHANGED <<stack, sequences, ci, child, dev, al, xMain>>

\* for seq in sequences: camera.change_filter(filter)
m_for_seq ==
  /\ pc = "m_for_seq"
  /\ \/ /\ mn.seq > Len(sequences)
        /\ pc' = "m_while"
        /\ UNCHANGED <<stack, sessv, al, xMain>>
     \/ /\ mn.seq <= Len(sequences)
        /\ mn' = [mn EXCEPT !.i = 0]
        /\ pc' = "m_for_i"
        /\ UNCHANGED <<stack, sequences, ci, child, dev, hist, al, xMain>>
     \/ /\ mn.seq <= Len(sequences)
        /\ exec_or_fail_exit

\* for i in range(repeat):
m_for_i ==
  /\ pc = "m_for_i"
  /\ IF mn.i < sequences[mn.seq].repeat
       THEN /\ mn' = mn
            /\ pc' = "m_state"
       ELSE /\ mn' = [mn EXCEPT !.seq = @ + 1]
            /\ pc' = "m_for_seq"
  /\ UNCHANGED <<stack, sequences, ci, child, dev, hist, al, xMain>>

\* print_and_log_mount_state(mount, args)
m_state ==
  /\ pc = "m_state"
  /\ \/ /\ pc' = "m_flip_check"
        /\ UNCHANGED <<stack, sessv, al, xMain>>
     \/ indi_cmd_fails

\* if need_meridian_flip(mount, args): handle_meridian_flip(...)
m_flip_check ==
  /\ pc = "m_flip_check"
  /\ \/ \E ra \in MountRa, lst \in MountLst, side \in PierSides :
          /\ IF need_meridian_flip(ra, lst, side, args.meridian_flip_angle)
               THEN Call("hmf_stop_guiding", "m_flip_done")
               ELSE pc' = "m_focus_check" /\ stack' = stack
          /\ hist' = [hist EXCEPT !.checks = @ \o <<"flip">>,
                                   !.pier_side = side]
          /\ UNCHANGED <<sequences, mn, ci, child, dev, al, xMain>>
     \/ indi_cmd_fails

\* What handle_meridian_flip has done so far is recorded in hist.flip.
FlipDid(cmd) == hist' = [hist EXCEPT !.flip = @ \o <<cmd>>]

\* handle_meridian_flip, wrong: the flip starts without stop_guiding.
hmf_stop_guiding_skipped ==
  /\ pc = "hmf_stop_guiding"
  /\ hist' = [hist EXCEPT !.flip = <<>>, !.pier_side = ""]
  /\ pc' = "hmf_flip"
  /\ UNCHANGED <<stack, sequences, mn, ci, child, dev, al, xMain>>

\* handle_meridian_flip: stop_guiding(phd2client)
hmf_stop_guiding ==
  /\ pc = "hmf_stop_guiding"
  /\ hist' = [hist EXCEPT !.flip = << <<"stop_guiding">> >>, !.pier_side = "",
                          !.guider = "stop"]
  /\ pc' = "hmf_flip"
  /\ UNCHANGED <<stack, sequences, mn, ci, child, dev, al, xMain>>

\* perform_meridian_flip: ra, dec = mount.get_ra_dec();
\* intermediate_ra = ra + 3; mount.goto(intermediate_ra, dec)
\* (the mount reports some ra of Ras and some dec of Decs)
perform_meridian_flip(Ras, Decs) ==
  /\ pc = "hmf_flip"
  /\ \/ /\ \E ra \in Ras, dec \in Decs :
             /\ mn' = [mn EXCEPT !.ra_dec = <<ra, dec>>]
             /\ FlipDid(<<"goto", ra + 30, dec>>)
        /\ pc' = "hmf_goto_back"
        /\ UNCHANGED <<stack, sequences, ci, child, dev, al, xMain>>
     \/ indi_cmd_fails

hmf_flip == perform_meridian_flip(MountRa, MountDec)

\* perform_meridian_flip: mount.goto(ra, dec)
hmf_goto_back ==
  /\ pc = "hmf_goto_back"
  /\ \/ /\ FlipDid(<<"goto", mn.ra_dec[1], mn.ra_dec[2]>>)
        /\ pc' = "hmf_align"
        /\ UNCHANGED <<stack, sequences, mn, ci, child, dev, al, xMain>>
     \/ indi_cmd_fails

\* handle_meridian_flip: run_alignment(mount, camera, coordinates, ...)
hmf_align ==
  /\ pc = "hmf_align"
  /\ FlipDid(<<"run_alignment">>)
  /\ Call("ra_stop_guiding", "hmf_start_guiding")
  /\ UNCHANGED <<sequences, mn, ci, child, dev, al, xMain>>

\* handle_meridian_flip: start_guiding(phd2client), its result dropped
hmf_start_guiding ==
  /\ pc = "hmf_start_guiding"
  /\ \E g \in GuideStarts :
       hist' = [hist EXCEPT !.flip = @ \o << <<"start_guiding">> >>,
                            !.guide_start = g, !.guider = "start"]
  /\ pc' = "hmf_auto_focus"
  /\ UNCHANGED <<stack, sequences, mn, ci, child, dev, al, xMain>>

\* handle_meridian_flip: run_auto_focus(camera, focuser, args) is one
\* argument short of run_auto_focus(camera, focuser, filter, args): the call
\* raises TypeError before run_auto_focus is entered.
hmf_auto_focus ==
  /\ pc = "hmf_auto_focus"
  /\ Die("exception", 1)

\* if time.time() - t_last_focus > args.focus_interval * 60:
\* the wall clock decides.
m_focus_check ==
  /\ pc = "m_focus_check"
  /\ \E due \in BOOLEAN : pc' = IF due THEN "m_refocus" ELSE "m_dither_check"
  /\ hist' = [hist EXCEPT !.checks = @ \o <<"focus">>, !.pier_side = ""]
  /\ UNCHANGED <<stack, sequences, mn, ci, child, dev, al, xMain>>

\* print_and_log("Running auto focus"); t_last_focus = time.time()
\* (the call of run_auto_focus is commented out)
m_refocus ==
  /\ pc = "m_refocus"
  /\ pc' = "m_dither_check"
  /\ UNCHANGED <<stack, sessv, al, xMain>>

\* if (i + 1) % args.dither_period == 0:
m_dither_check ==
  /\ pc = "m_dither_check"
  /\ pc' = IF (mn.i + 1) % args.dither_period = 0 THEN "m_dither" ELSE "m_capture"
  /\ hist' = [hist EXCEPT !.checks = @ \o <<"dither">>]
  /\ UNCHANGED <<stack, sequences, mn, ci, child, dev, al, xMain>>

\* phd2client.dither(pixels=4, settle_pixels=0.5, settle_timeout=60):
\* settled or not, the loop goes on.
m_dither ==
  /\ pc = "m_dither"
  /\ pc' = "m_capture"
  /\ hist' = [hist EXCEPT !.undithered = -1]
  /\ UNCHANGED <<stack, sequences, mn, ci, child, dev, al, xMain>>

\* image_file = get_image_filename(capture_dir); set_capture_settings(...);
\* capture_image(camera, image_file, exposure): pid = os.fork(); the child
\* runs camera.capture_image and exits.
m_capture ==
  /\ pc = "m_capture"
  /\ ci' = [duration |-> sequences[mn.seq].exposure, elapsed |-> 0]
  /\ child' = "running"
  /\ Call("cap_wait", "m_alt")
  /\ hist' = [hist EXCEPT !.checks = <<>>,
                          !.undithered = IF @ < args.dither_period
                                           THEN @ + 1 ELSE @]
  /\ UNCHANGED <<sequences, mn, dev, al, xMain>>

\* The child's camera.capture_image ends (the exposure is done, or it failed).
child_exit ==
  /\ child = "running"
  /\ Running
  /\ child' = "done"
  /\ UNCHANGED <<pc, stack, sequences, mn, ci, dev, hist, al, xMain>>

\* capture_image, wrong: the wait ends as soon as terminate is set.
cap_wait_stops_on_terminate ==
  /\ pc = "cap_wait"
  /\ IF ci.elapsed < ci.duration /\ ~terminate
       THEN /\ ci' = [ci EXCEPT !.elapsed = @ + 1]
            /\ pc' = "cap_wait"
       ELSE /\ pc' = "cap_pgrep"
            /\ ci' = ci
  /\ UNCHANGED <<stack, sequences, mn, child, dev, hist, al, xMain>>

\* capture_image, parent: while time.time() - t_start < duration: sleep(0.1)
cap_wait ==
  /\ pc = "cap_wait"
  /\ IF ci.elapsed < ci.duration
       THEN /\ ci' = [ci EXCEPT !.elapsed = @ + 1]
            /\ pc' = "cap_wait"
       ELSE /\ pc' = "cap_pgrep"
            /\ ci' = ci
  /\ UNCHANGED <<stack, sequences, mn, child, dev, hist, al, xMain>>

\* capture_image, wrong: no wait for the capture client after the duration.
cap_pgrep_no_wait ==
  /\ pc = "cap_pgrep"
  /\ Return
  /\ UNCHANGED <<sessv, al, xMain>>

\* capture_image, parent: while pgrep indi_cam_client: sleep(0.1); return
cap_pgrep ==
  /\ pc = "cap_pgrep"
  /\ IF child = "running"
       THEN pc' = "cap_pgrep" /\ stack' = stack
       ELSE Return
  /\ UNCHANGED <<sessv, al, xMain>>

\* alt, _ = mount.get_alt_az(); next i
m_alt ==
  /\ pc = "m_alt"
  /\ \/ /\ \E a \in Altitudes :
             mn' = [mn EXCEPT !.alt = a, !.i = @ + 1]
        /\ ci' = CaptureIdle
        /\ child' = "none"
        /\ hist' = [hist EXCEPT !.term_in_capture = FALSE]
        /\ pc' = "m_for_i"
        /\ UNCHANGED <<stack, sequences, dev, al, xMain>>
     \/ indi_cmd_fails

\* mount.park(): write("TELESCOPE_PARK", "PARK", "On")
m_park ==
  /\ pc = "m_park"
  /\ \/ /\ dev' = [dev EXCEPT !.parks = 1]
        /\ pc' = "m_park_wait"
        /\ UNCHANGED <<stack, sequences, mn, ci, child, hist, al, xMain>>
     \/ indi_cmd_fails

\* mount.park(): while self.read("TELESCOPE_PARK.PARK") != "On": sleep(1);
\* then main returns and the process exits with 0.
m_park_wait ==
  /\ pc = "m_park_wait"
  /\ \/ Die("normal", 0)
     \/ /\ pc' = "m_park_wait"
        /\ UNCHANGED <<stack, sessv, al, xMain>>
     \/ indi_cmd_fails

main ==
  \/ m_disk \/ m_setup \/ m_unpark \/ m_unpark_wait \/ m_phd2
  \/ ra_stop_guiding \/ ra_filter \/ ra_start_guiding
  \/ m_log_state \/ m_initial_focus \/ raf_filter \/ raf_unpack
  \/ m_read_alt \/ m_while \/ m_for_seq \/ m_for_i \/ m_state
  \/ m_flip_check \/ hmf_stop_guiding \/ hmf_flip \/ hmf_goto_back
  \/ hmf_align \/ hmf_start_guiding \/ hmf_auto_focus
  \/ m_focus_check \/ m_refocus \/ m_dither_check \/ m_dither \/ m_capture
  \/ cap_wait \/ cap_pgrep \/ m_alt \/ m_park \/ m_park_wait

CaptureLabels == {"cap_wait", "cap_pgrep"}

----------------------------------------------------------------------------
(* auto_meridian_flip.py: the stand-alone monitor of the mount. *)

\* The elements of RASTATUS and DESTATUS the classification looks at, and
\* the values of an INDI light.
RaKeys == {"RAGoto", "RARunning", "RAHighspeed"}
DeKeys == {"DEGoto", "DERunning"}
Lights == {"Idle", "Ok", "Busy"}

\* ReadIndi(device, "RASTATUS.*"): the list of (key, value) pairs
StatusPairs(f) == {<<k, f[k]>> : k \in DOMAIN f}

\* get_mount_state, wrong: tracking is not guarded by `not goto_slew`.
get_mount_state_unguarded(ra_status, de_status) ==
  LET goto_slew   == \/ <<"RAGoto", "Ok">> \in ra_status
                     \/ <<"DEGoto", "Ok">> \in de_status
      tracking    == /\ <<"RARunning", "Ok">> \in ra_status
                     /\ <<"RAGoto", "Busy">> \in ra_status
                     /\ <<"RAHighspeed", "Busy">> \in ra_status
      manual_slew == /\ ~goto_slew
                     /\ ~tracking
                     /\ \/ <<"RARunning", "Ok">> \in ra_status
                        \/ <<"DERunning", "Ok">> \in de_status
  IN  [manual_slew |-> manual_slew, goto_slew |-> goto_slew, tracking |-> tracking]

\* get_mount_state(device), on the two lists read
get_mount_state(ra_status, de_status) ==
  LET goto_slew   == \/ <<"RAGoto", "Ok">> \in ra_status
                     \/ <<"DEGoto", "Ok">> \in de_status
      tracking    == /\ ~goto_slew
                     /\ <<"RARunning", "Ok">> \in ra_status
                     /\ <<"RAGoto", "Busy">> \in ra_status
                     /\ <<"RAHighspeed", "Busy">> \in ra_status
      manual_slew == /\ ~goto_slew
                     /\ ~tracking
                     /\ \/ <<"RARunning", "Ok">> \in ra_status
                        \/ <<"DERunning", "Ok">> \in de_status
  IN  [manual_slew |-> manual_slew, goto_slew |-> goto_slew, tracking |-> tracking]

\* What the monitor's mount may report: RA and LST in tenths of an hour,
\* both in [0, 24 h); the altitude in degrees.
MonitorRa == {0, 55, 120, 239}
MonitorLst == {0, 60, 125, 239}
MonitorAlt == {-5, 30}

\* --meridian-flip-angle in tenths of an hour, --min-altitude in degrees
MonitorFlipAngles == {0, 3}

NoStatus == [ra_status |-> {}, de_status |-> {}]
NoFlags == [manual_slew |-> FALSE, goto_slew |-> FALSE, tracking |-> FALSE]

MonitorIdle ==
  [pc |-> "idle", meridian_flip_angle |-> 0, min_altitude |-> 0,
   raw |-> NoStatus, flags |-> NoFlags, mount_state |-> "",
   ra |-> 0, lst |-> 0, ha |-> 0, pier_side |-> "", alt |-> 0,
   time_to_flip |-> 0, cmd |-> "", exit_code |-> -1]

\* The head of the while True loop, nothing read yet.
MonitorPoll(angle) ==
  [MonitorIdle EXCEPT !.pc = "poll", !.meridian_flip_angle = angle]

MonitorExit(code) == amf' = [amf EXCEPT !.pc = "exited", !.exit_code = code]

\* (manual_slew, goto_slew, tracking) = get_mount_state(args.device)
amf_poll ==
  /\ amf.pc = "poll"
  /\ \E r \in [RaKeys -> Lights], d \in [DeKeys -> Lights] :
       amf' = [amf EXCEPT
                 !.raw = [ra_status |-> StatusPairs(r), de_status |-> StatusPairs(d)],
                 !.flags = get_mount_state(StatusPairs(r), StatusPairs(d)),
                 !.pc = "report"]

\* if manual_slew: "Slewing" elif goto_slew: "Goto" elif tracking: "Tracking"
\* else: "Idle"
amf_report ==
  /\ amf.pc = "report"
  /\ amf' = [amf EXCEPT
               !.mount_state = IF amf.flags.manual_slew THEN "Slewing"
                               ELSE IF amf.flags.goto_slew THEN "Goto"
                               ELSE IF amf.flags.tracking THEN "Tracking"
                               ELSE "Idle",
               !.pc = "coords"]

\* ra, dec, lst = ReadIndi(...); ha = lst - ra; if ha > 12: ha -= 24
amf_coords ==
  /\ amf.pc = "coords"
  /\ \E ra \in MonitorRa, lst \in MonitorLst :
       amf' = [amf EXCEPT
                 !.raw = NoStatus,
                 !.ra = ra, !.lst = lst,
                 !.ha = IF lst - ra > 120 THEN lst - ra - 240 ELSE lst - ra,
                 !.pc = "pier"]

\* pier_side = get_pier_side(args.device): West, East, or sys.exit(1)
amf_pier ==
  /\ amf.pc = "pier"
  /\ \/ \E side \in {"West", "East"} :
          amf' = [amf EXCEPT !.pier_side = side, !.pc = "time_to_flip"]
     \/ MonitorExit(1)

\* altaz = ra_dec_to_alt_az(...); time_to_flip by pier side
amf_time_to_flip ==
  /\ amf.pc = "time_to_flip"
  /\ \E alt \in MonitorAlt :
       amf' = [amf EXCEPT
                 !.alt = alt,
                 !.time_to_flip =
                    IF amf.pier_side = "East"
                      THEN (120 + amf.meridian_flip_angle - amf.ha) * 360
                      ELSE Max(0, (amf.meridian_flip_angle - amf.ha) * 360),
                 !.pc = "flip"]

\* The flip test, wrong: the mount state is not looked at.
amf_flip_any_state ==
  /\ amf.pc = "flip"
  /\ \/ amf' = [amf EXCEPT
                  !.cmd = IF amf.time_to_flip <= 0 THEN "flip" ELSE "",
                  !.pc = "altitude"]
     \/ /\ amf.time_to_flip <= 0
        /\ MonitorExit(1)

\* if tracking and time_to_flip <= 0: perform_meridian_flip(args.device)
amf_flip ==
  /\ amf.pc = "flip"
  /\ \/ amf' = [amf EXCEPT
                  !.cmd = IF amf.flags.tracking /\ amf.time_to_flip <= 0
                            THEN "flip" ELSE "",
                  !.pc = "altitude"]
     \/ /\ amf.flags.tracking /\ amf.time_to_flip <= 0
        /\ MonitorExit(1)

\* if tracking and altaz.alt.deg < args.min_altitude: stop_tracking(...)
amf_altitude ==
  /\ amf.pc = "altitude"
  /\ \/ amf' = [amf EXCEPT
                  !.cmd = IF amf.flags.tracking /\ amf.alt < amf.min_altitude
                            THEN "stop_tracking" ELSE @,
                  !.pc = "sleep"]
     \/ /\ amf.flags.tracking /\ amf.alt < amf.min_altitude
        /\ MonitorExit(1)

\* time.sleep(1); the next iteration
amf_sleep ==
  /\ amf.pc = "sleep"
  /\ amf' = MonitorPoll(amf.meridian_flip_angle)

\* SIGINT: signal_handler calls sys.exit(0)
amf_sigint ==
  /\ amf.pc \notin {"idle", "exited"}
  /\ MonitorExit(0)

auto_meridian_flip ==
  /\ \/ amf_poll \/ amf_report \/ amf_coords \/ amf_pier \/ amf_time_to_flip
     \/ amf_flip \/ amf_altitude \/ amf_sleep \/ amf_sigint
  /\ UNCHANGED <<pc, stack, exit_code, exit_cause, terminate, terminate_count,
                 args, al, af, focuser_pos, sequences, mn, ci, child, dev, hist,
                 ph, fs>>

----------------------------------------------------------------------------
(* Phd2Client.start_guiding and Phd2Client.dither (sky_scripter/lib_phd2.py).
   Time is counted in ticks; PhdTimeout ticks stand for the timeout argument
   (360 s for start_guiding, 60 s for dither). *)

PhdTimeout == 3

GuiderOps == {"start_guiding", "dither"}

Event(name, status) == [Event |-> name, Status |-> status]

\* wait_events of start_guiding: success, progress and error events; the
\* Status of SettleDone is 0 or an error code.
StartGuidingEvents ==
  {Event("SettleDone", 0), Event("SettleDone", 1), Event("StartCalibration", -1),
   Event("Calibrating", -1), Event("GuideStep", -1), Event("CalibrationFailed", -1)}

\* success_events + progress_events of dither
DitherEvents ==
  {Event("SettleDone", 0), Event("SettleDone", 1), Event("Settling", -1)}

WaitEvents(op) == IF op = "start_guiding" THEN StartGuidingEvents ELSE DitherEvents

GuiderIdle ==
  [pc |-> "idle", op |-> "", elapsed |-> 0, response |-> None,
   result |-> "pending",
   \* history of the call: the events received, in order
   events |-> <<>>]

GuiderReturn(value) == ph' = [ph EXCEPT !.pc = "returned", !.result = value]

\* send_command("guide" / "dither", params); t_start = time.time().
\* sock.sendall raises when the socket is not connected.
phd2_send_command ==
  /\ ph.pc = "idle"
  /\ \E op \in GuiderOps :
       \/ ph' = [ph EXCEPT !.pc = "loop", !.op = op]
       \/ ph' = [ph EXCEPT !.pc = "raised", !.op = op]

\* while time.time() - t_start < timeout: ...
\* after the loop: logging.error("Timed out waiting for ..."), and then
\* dither has `return False`, start_guiding has no return statement.
phd2_loop ==
  /\ ph.pc = "loop"
  /\ IF ph.elapsed < PhdTimeout
       THEN ph' = [ph EXCEPT !.pc = "wait"]
       ELSE GuiderReturn(IF ph.op = "dither" THEN "False" ELSE "None")

\* response = self.wait_for_response(events, timeout=timeout): the first
\* event of the list that arrives within the timeout, or None after it.
wait_for_response ==
  /\ ph.pc = "wait"
  /\ \/ \E e \in WaitEvents(ph.op), d \in 1..(PhdTimeout - 1) :
          ph' = [ph EXCEPT !.pc = "response", !.response = e,
                           !.elapsed = @ + d, !.events = Append(@, e)]
     \/ ph' = [ph EXCEPT !.pc = "response", !.response = None,
                         !.elapsed = @ + PhdTimeout]

\* start_guiding, the body of the loop
start_guiding ==
  /\ ph.pc = "response" /\ ph.op = "start_guiding"
  /\ IF ph.response = None THEN GuiderReturn("False")
     ELSE IF ph.response.Event = "SettleDone"
       THEN GuiderReturn(IF ph.response.Status # 0 THEN "False" ELSE "True")
     ELSE IF ph.response.Event = "GuideStep" THEN GuiderReturn("True")
     ELSE IF ph.response.Event = "CalibrationFailed" THEN GuiderReturn("False")
     ELSE ph' = [ph EXCEPT !.pc = "loop"]

\* dither, the body of the loop
dither ==
  /\ ph.pc = "response" /\ ph.op = "dither"
  /\ IF ph.response = None THEN GuiderReturn("False")
     ELSE IF ph.response.Event = "SettleDone"
       THEN GuiderReturn(IF ph.response.Status # 0 THEN "False" ELSE "True")
     ELSE ph' = [ph EXCEPT !.pc = "loop"]

Phd2Client ==
  /\ \/ phd2_send_command \/ phd2_loop \/ wait_for_response
     \/ start_guiding \/ dither
  /\ UNCHANGED <<pc, stack, exit_code, exit_cause, terminate, terminate_count,
                 args, al, af, focuser_pos, sequences, mn, ci, child, dev, hist,
                 amf, fs>>

----------------------------------------------------------------------------
(* get_image_filename and the files of the captures (capture/batch_capture.py). *)

\* The names tried: capture-00000.fits .. capture-99999.fits in the source,
\* capture-0 .. capture-(MaxFiles - 1) here.
MaxFiles == 4

ImageIndices == 0..(MaxFiles - 1)

\* Python's raise ValueError('Too many images in the capture directory')
TooManyImages == -1

\* get_image_filename, wrong: the last name that does not exist.
get_image_filename_last(existing) ==
  IF ImageIndices \subseteq existing THEN TooManyImages
  ELSE CHOOSE i \in ImageIndices \ existing :
         \A j \in ImageIndices \ existing : j <= i

\* for i in range(100000): if not os.path.exists(filename): return filename
\* raise ValueError(...)
get_image_filename(existing) ==
  IF \E i \in ImageIndices : i \notin existing
    THEN CHOOSE i \in ImageIndices :
           /\ i \notin existing
           /\ \A j \in 0..(i - 1) : j \in existing
    ELSE TooManyImages

Directory(existing) ==
  [pc |-> "idle", existing |-> existing, image_file |-> TooManyImages,
   \* history: the names written by the completed captures of the session
   written |-> {}]

DirectoryIdle == Directory({})

\* main: image_file = get_image_filename(capture_dir)
fs_image_file ==
  /\ fs.pc = "idle"
  /\ LET image_file == get_image_filename(fs.existing)
     IN  fs' = [fs EXCEPT !.image_file = image_file,
                          !.pc = IF image_file = TooManyImages
                                   THEN "raised" ELSE "named"]

\* capture_image: the child's camera.capture_image(filename) writes the file,
\* or its command fails and nothing is written; then the next capture.
fs_capture ==
  /\ fs.pc = "named"
  /\ \/ fs' = [fs EXCEPT !.pc = "idle",
                         !.existing = @ \cup {fs.image_file},
                         !.written = @ \cup {fs.image_file}]
     \/ fs' = [fs EXCEPT !.pc = "idle"]

image_files ==
  /\ fs_image_file \/ fs_capture
  /\ UNCHANGED <<pc, stack, exit_code, exit_cause, terminate, terminate_count,
                 args, al, af, focuser_pos, sequences, mn, ci, child, dev, hist,
                 amf, ph>>


\* The state after signal.signal(...) has installed the handlers (line 461).
Init ==
  /\ pc = "m_disk"
  /\ stack = <<>>
  /\ exit_code = -1
  /\ exit_cause = "none"
  /\ terminate = FALSE
  /\ terminate_count = 0
  /\ \E sim \in BOOLEAN, skip \in BOOLEAN :
       args = [simulate |-> sim, skip_initial_focus |-> skip,
               align_threshold |-> DefaultAlignThreshold,
               min_altitude |-> DefaultMinAltitude,
               meridian_flip_angle |-> DefaultFlipAngle,
               dither_period |-> DitherPeriod,
               focus_step_size |-> DefaultFocusStepSize,
               focus_steps |-> FocusSteps]
  /\ al = AlignIdle
  /\ af = AutoFocusIdle
  /\ focuser_pos = StartFocus[1]
  /\ sequences = <<>>
  /\ mn = MainIdle
  /\ ci = CaptureIdle
  /\ child = "none"
  /\ dev = [unparked |-> FALSE, parks |-> 0]
  /\ hist = [signals |-> 0, term_in_capture |-> FALSE, init_align |-> "pending",
             checks |-> <<>>, flip |-> <<>>, pier_side |-> "",
             guide_start |-> "", undithered |-> 0,
             guider |-> ""]
  /\ amf = MonitorIdle
  /\ ph = GuiderIdle
  /\ fs = DirectoryIdle

Next == main \/ align_to_object \/ auto_focus \/ child_exit \/ signal_handler

Spec == Init /\ [][Next]_vars

----------------------------------------------------------------------------
(* The algorithms run alone (as from test_alignment): the arguments are     *)
(* drawn from bounded sets.                                                 *)

AlgBase ==
  /\ exit_code = -1
  /\ exit_cause = "none"
  /\ terminate = FALSE
  /\ terminate_count = 0
  /\ \E sim \in BOOLEAN : args = [simulate |-> sim]
  /\ focuser_pos = StartFocus[1]
  /\ sequences = <<>>
  /\ mn = MainIdle
  /\ ci = CaptureIdle
  /\ child = "none"
  /\ dev = [unparked |-> FALSE, parks |-> 0]
  /\ hist = [signals |-> 0, term_in_capture |-> FALSE, init_align |-> "pending",
             checks |-> <<>>, flip |-> <<>>, pier_side |-> "",
             guide_start |-> "", undithered |-> 0,
             guider |-> ""]
  /\ amf = MonitorIdle
  /\ ph = GuiderIdle
  /\ fs = DirectoryIdle

\* align_to_object(mount, camera, ra, dec, threshold, max_iterations)
AlignAlone ==
  /\ pc = "align_loop"
  /\ stack = <<"alg_done">>
  /\ \E m \in 0..MaxIter, thr \in Thresholds :
       al = AlignFrame(m, thr, Target[1], Target[2])
  /\ af = AutoFocusIdle

\* align_to_object, then auto_focus, as at the start of a session
AlignThenFocus ==
  /\ pc = "align_loop"
  /\ stack = <<"af_start", "alg_done">>
  /\ al = AlignFrame(1, DefaultAlignThreshold, Target[1], Target[2])
  /\ af = AutoFocusFrame(StartFocus[1], StartFocus[1] + StartFocus[2],
                         StartFocus[2], DefaultBacklash)

\* auto_focus(focuser, camera, focus_min, focus_max, focus_step)
FocusAlone ==
  /\ pc = "af_start"
  /\ stack = <<"alg_done">>
  /\ al = AlignIdle
  /\ \E n \in 1..MaxSweep :
       af = AutoFocusFrame(StartFocus[1] - StartFocus[2],
                           StartFocus[1] - StartFocus[2] + (n - 1) * StartFocus[2],
                           StartFocus[2], DefaultBacklash)

AlgInit == AlgBase /\ (AlignAlone \/ AlignThenFocus \/ FocusAlone)

AlignInit == AlgBase /\ AlignAlone

AlgNext == align_to_object \/ auto_focus

AlgSpec == AlgInit /\ [][AlgNext]_vars

\* align_to_object alone; the commands it issues return, so the control
\* thread keeps going.
FairAlignSpec == AlignInit /\ [][align_to_object]_vars /\ WF_vars(align_to_object)

\* auto_meridian_flip.py started with some --meridian-flip-angle; the
\* session program is not running.
MonitorInit ==
  /\ pc = "idle"
  /\ stack = <<>>
  /\ al = AlignIdle
  /\ af = AutoFocusIdle
  /\ exit_code = -1
  /\ exit_cause = "none"
  /\ terminate = FALSE
  /\ terminate_count = 0
  /\ args = [simulate |-> FALSE]
  /\ focuser_pos = StartFocus[1]
  /\ sequences = <<>>
  /\ mn = MainIdle
  /\ ci = CaptureIdle
  /\ child = "none"
  /\ dev = [unparked |-> FALSE, parks |-> 0]
  /\ hist = [signals |-> 0, term_in_capture |-> FALSE, init_align |-> "pending",
             checks |-> <<>>, flip |-> <<>>, pier_side |-> "",
             guide_start |-> "", undithered |-> 0,
             guider |-> ""]
  /\ \E angle \in MonitorFlipAngles : amf = MonitorPoll(angle)
  /\ ph = GuiderIdle
  /\ fs = DirectoryIdle

MonitorSpec == MonitorInit /\ [][auto_meridian_flip]_vars

\* A Phd2Client, no call made yet; the session program is not running.
GuiderInit ==
  /\ pc = "idle"
  /\ stack = <<>>
  /\ al = AlignIdle
  /\ af = AutoFocusIdle
  /\ exit_code = -1
  /\ exit_cause = "none"
  /\ terminate = FALSE
  /\ terminate_count = 0
  /\ args = [simulate |-> FALSE]
  /\ focuser_pos = StartFocus[1]
  /\ sequences = <<>>
  /\ mn = MainIdle
  /\ ci = CaptureIdle
  /\ child = "none"
  /\ dev = [unparked |-> FALSE, parks |-> 0]
  /\ hist = [signals |-> 0, term_in_capture |-> FALSE, init_align |-> "pending",
             checks |-> <<>>, flip |-> <<>>, pier_side |-> "",
             guide_start |-> "", undithered |-> 0,
             guider |-> ""]
  /\ amf = MonitorIdle
  /\ ph = GuiderIdle
  /\ fs = DirectoryIdle

GuiderSpec == GuiderInit /\ [][Phd2Client]_vars

\* Every RA (tenths of an hour, [0, 24) h) and some Dec (arcseconds,
\* [-90, 90] deg) a mount may report.
AnyRa == 0..239
AnyDec == {-324000, -18000, 0, 324000}

\* The session has found the flip due and has entered handle_meridian_flip
\* (main, line 502), the mount tracking a target anywhere in the sky.
FlipInit ==
  /\ pc = "hmf_stop_guiding"
  /\ stack = <<"m_flip_done">>
  /\ exit_code = -1
  /\ exit_cause = "none"
  /\ terminate = FALSE
  /\ terminate_count = 0
  /\ args = [simulate |-> FALSE, skip_initial_focus |-> TRUE,
             align_threshold |-> DefaultAlignThreshold,
             min_altitude |-> DefaultMinAltitude,
             meridian_flip_angle |-> DefaultFlipAngle,
             dither_period |-> DitherPeriod,
             focus_step_size |-> DefaultFocusStepSize,
             focus_steps |-> FocusSteps]
  /\ al = AlignIdle
  /\ af = AutoFocusIdle
  /\ focuser_pos = StartFocus[1]
  /\ sequences = <<[filter |-> "L", exposure |-> ExposureTicks, repeat |-> 1]>>
  /\ mn = [alt |-> 5, alt_read |-> TRUE, seq |-> 1, i |-> 0, ra_dec |-> None]
  /\ ci = CaptureIdle
  /\ child = "none"
  /\ dev = [unparked |-> TRUE, parks |-> 0]
  /\ hist = [signals |-> 0, term_in_capture |-> FALSE, init_align |-> "True",
             checks |-> <<"altitude", "terminate", "flip">>, flip |-> <<>>,
             pier_side |-> "West", guide_start |-> "", undithered |-> 0,
             guider |-> "start"]
  /\ amf = MonitorIdle
  /\ ph = GuiderIdle
  /\ fs = DirectoryIdle

\* The capture directory holds any of the names when the session comes to
\* its first capture; the rest of the session is left out.
FilesInit ==
  /\ pc = "idle"
  /\ stack = <<>>
  /\ al = AlignIdle
  /\ af = AutoFocusIdle
  /\ exit_code = -1
  /\ exit_cause = "none"
  /\ terminate = FALSE
  /\ terminate_count = 0
  /\ args = [simulate |-> FALSE]
  /\ focuser_pos = StartFocus[1]
  /\ sequences = <<>>
  /\ mn = MainIdle
  /\ ci = CaptureIdle
  /\ child = "none"
  /\ dev = [unparked |-> FALSE, parks |-> 0]
  /\ hist = [signals |-> 0, term_in_capture |-> FALSE, init_align |-> "pending",
             checks |-> <<>>, flip |-> <<>>, pier_side |-> "",
             guide_start |-> "", undithered |-> 0,
             guider |-> ""]
  /\ amf = MonitorIdle
  /\ ph = GuiderIdle
  /\ \E existing \in SUBSET ImageIndices : fs = Directory(existing)

FilesSpec == FilesInit /\ [][image_files]_vars

\* The session with a control thread that keeps running: a step of the
\* control thread or of the capture child that can be taken is taken in the
\* end.  Nothing is assumed about the arrival of signals.
ControlThread == main \/ align_to_object \/ auto_focus \/ child_exit

FairSpec == Init /\ [][Next]_vars /\ WF_vars(ControlThread)

FlipNext ==
  hmf_stop_guiding \/ perform_meridian_flip(AnyRa, AnyDec) \/ hmf_goto_back

FlipSpec == FlipInit /\ [][FlipNext]_vars

----------------------------------------------------------------------------
(* Claims about align_to_object. *)

\* C1: align_to_object runs at most max_iterations iterations and issues at
\* most max_iterations mount gotos, and it terminates (by returning, by an
\* exception or by the process exiting), whatever the devices and the solver do.
C1_AlignBounded ==
  /\ [](al.iteration <= al.max_iterations /\ al.gotos <= al.max_iterations)
  /\ (InAlign ~> ~InAlign)

\* C1 witness: all max_iterations (>= 2) iterations ran and the loop ended.
C1_Witness ==
  /\ al.result = "False"
  /\ al.max_iterations >= 2
  /\ al.gotos = al.max_iterations

\* The plate solver found no solution in the current iteration.
SolveFailed ==
  al.iteration >= 1 /\ al.solves = al.iteration /\ al.ra_dec = None

\* C2 (as claimed): after a failed plate solve the alignment returns failure
\* to its caller, with no sync issued in that iteration and no further
\* iteration started.
C2_SolveFailureReturnsFailure ==
  SolveFailed =>
    /\ al.syncs < al.iteration
    /\ exit_cause # "exception"
    /\ (~InAlign /\ Running => al.result = "False")

\* The error of the spec's formula (flat approximation), from the solved
\* coordinates: sqrt((d_ra * 15)^2 + d_dec^2), floor.
SpecError ==
  LET d_ra  == Abs(al.ra_target - al.ra_dec[1]) * 15
      d_dec == Abs(al.dec_target - al.ra_dec[2])
  IN  ISqrt(d_ra * d_ra + d_dec * d_dec)

\* C3: align_to_object returns success exactly at the first iteration whose
\* error is strictly below the threshold, having issued one goto, capture,
\* solve and sync per iteration and starting no further iteration; it returns
\* failure only after max_iterations iterations none of which was below the
\* threshold; a solve equal to the target on iteration 1 (threshold > 0)
\* gives success after one iteration with error 0.
C3_AlignResult ==
  /\ al.error # -1 => al.error = SpecError
  /\ al.result = "True" =>
       /\ al.iteration \in 1..al.max_iterations
       /\ al.first_below = al.iteration
       /\ al.error < al.threshold
       /\ al.gotos = al.iteration /\ al.captures = al.iteration
       /\ al.solves = al.iteration /\ al.syncs = al.iteration
       /\ ~InAlign
  /\ al.first_below # 0 => al.result = "True"
  /\ al.result = "False" =>
       /\ al.first_below = 0
       /\ al.iteration = al.max_iterations
       /\ al.syncs = al.max_iterations
  /\ (~InAlign /\ Running /\ al.result # "idle") => al.result \in {"True", "False"}
  /\ (al.iteration = 1 /\ al.error # -1 /\ al.threshold > 0
        /\ al.ra_dec = <<al.ra_target, al.dec_target>>) =>
       (al.error = 0 /\ al.result = "True" /\ al.gotos = 1 /\ al.syncs = 1)

\* C3 witness: success at iteration 2 after a first iteration above threshold.
C3_Witness ==
  /\ al.result = "True"
  /\ al.iteration = 2
  /\ al.error = 25
  /\ al.threshold = 30

----------------------------------------------------------------------------
(* Claims about the order of the device commands. *)

IsPrefix(s, t) == Len(s) <= Len(t) /\ s = SubSeq(t, 1, Len(s))

AlignOrder == <<"goto", "capture", "solve", "sync">>
FocusOrder == <<"set_focus", "capture", "measure">>

\* C4: in every alignment iteration the commands issued so far are goto,
\* capture, plate-solve, sync in that order, and in every step of the
\* autofocus sweep they are focus-move, capture, measure in that order; a
\* command is issued only when the one before it has returned (the control
\* thread stands at the label after it), so no two overlap.
C4_CommandOrder ==
  /\ IsPrefix(al.iter_cmds, AlignOrder)
  /\ (pc = "align_goto" => al.iter_cmds = <<>>)
  /\ (pc = "align_capture" => al.iter_cmds = SubSeq(AlignOrder, 1, 1))
  /\ (pc = "align_solve" => al.iter_cmds = SubSeq(AlignOrder, 1, 2))
  /\ (pc = "align_sync" => al.iter_cmds = SubSeq(AlignOrder, 1, 3))
  /\ (pc = "align_check" => al.iter_cmds = AlignOrder)
  /\ (af.phase = "sweep" => IsPrefix(af.step_cmds, FocusOrder))
  /\ (pc = "af_move" => af.step_cmds = <<>>)
  /\ ((af.phase = "sweep" /\ pc = "ms_capture") =>
        af.step_cmds = SubSeq(FocusOrder, 1, 1))
  /\ ((af.phase = "sweep" /\ pc = "ms_detect") =>
        af.step_cmds = SubSeq(FocusOrder, 1, 2))
  /\ (pc = "af_record" => af.step_cmds = FocusOrder)

\* C4 witness: an alignment iteration has issued its four commands and a
\* later sweep step its three.
C4_Witness ==
  /\ al.result = "True"
  /\ al.iter_cmds = AlignOrder
  /\ pc = "af_record"
  /\ af.step_cmds = FocusOrder
  /\ Len(af.focus_results) = 1

----------------------------------------------------------------------------
(* Claims about the session. *)

\* An exposure of the plan is being started: capture_image is called.
StartsExposure == pc = "m_capture" /\ pc' = "cap_wait"

\* C5: when the alignment at the start of the session returns failure, no
\* exposure of the plan is captured and the process exits with code 1.
C5_InitialAlignFailureAborts ==
  hist.init_align = "False" =>
    /\ pc \notin {"m_capture"} \cup CaptureLabels
    /\ exit_code \in {-1, 1}

\* C6: once the termination flag is set, no new exposure is started.
C6_NoExposureAfterTerminate ==
  [][terminate => ~StartsExposure]_vars

\* C7: capture_image returns only after the full exposure duration has
\* elapsed and the capture process has finished, also when a termination
\* request arrives during the wait; until then the request changes nothing
\* in capture_image.
C7_ExposureNotTruncated ==
  /\ (pc = "cap_pgrep" => ci.elapsed >= ci.duration)
  /\ (pc = "m_alt" => (ci.elapsed >= ci.duration /\ child = "done"))
  /\ (hist.term_in_capture => (terminate /\ pc \in CaptureLabels \cup {"m_alt", "exited"}))

\* C7 witness: a termination request arrived during the wait and
\* capture_image has returned after the whole exposure.
C7_Witness ==
  /\ pc = "m_alt"
  /\ hist.term_in_capture
  /\ terminate
  /\ ci.duration = ExposureTicks
  /\ ci.elapsed = ci.duration
  /\ child = "done"

\* C8 as stated: the second termination signal forces the process to exit.
C8_SecondSignalForcesExit ==
  [][(hist.signals = 1 /\ hist.signals' = 2) => exit_cause' = "forced"]_vars

\* C8: the first termination signal sets the flag and the control thread
\* goes on; so does the second; the third exits at once with code 1 and
\* without a park command.
C8_ThirdSignalForcesExit ==
  [][hist.signals' = hist.signals + 1 =>
       /\ terminate'
       /\ (hist.signals < 2 =>
             /\ exit_code' = -1
             /\ pc' = pc
             /\ terminate_count' = hist.signals + 1)
       /\ (hist.signals = 2 =>
             /\ exit_code' = 1
             /\ exit_cause' = "forced"
             /\ pc' = "exited"
             /\ dev' = dev)]_vars

\* C8 witness: the third signal has ended a session whose mount was
\* unparked and has not been parked.
C8_Witness ==
  /\ exit_cause = "forced"
  /\ exit_code = 1
  /\ hist.signals = 3
  /\ dev.unparked
  /\ dev.parks = 0

\* C9: every exit after the mount has been unparked, other than the forced
\* exit, comes after a park command.
C9_ParkBeforeExit ==
  (exit_code # -1 /\ dev.unparked /\ exit_cause # "forced") => dev.parks > 0

\* C10: no exposure is started while the altitude last read is at or below
\* min_altitude (simulate off).
C10_NoExposureBelowMinAltitude ==
  [][(mn.alt_read /\ mn.alt <= args.min_altitude /\ ~args.simulate)
       => ~StartsExposure]_vars

\* A pass over the whole plan has been completed: the for loop over
\* sequences has run out and control is back at the while test.
PlanExhausted == pc = "m_while" /\ mn.seq > Len(sequences)

\* C11: when every entry of the plan has been captured repeat times, the
\* session leaves the imaging loop for the park, whatever the altitude and
\* the termination flag.
C11_PlanExhaustionEndsSession ==
  [][PlanExhausted => pc' \in {"m_while", "m_park", "exited"}]_vars

\* The conditions the imaging loop has evaluated since the previous capture
\* are the two of the while test, then flip, focus and dither.
AllChecksInOrder ==
  /\ Len(hist.checks) = 5
  /\ {hist.checks[1], hist.checks[2]} = {"terminate", "altitude"}
  /\ SubSeq(hist.checks, 3, 5) = <<"flip", "focus", "dither">>

\* C12: every capture is issued after the termination flag, the altitude,
\* the meridian flip, the focus interval and the dither period have all
\* been evaluated, in that order, since the previous capture.
C12_ChecksBeforeEachCapture ==
  [][StartsExposure => AllChecksInOrder]_vars

\* The actions of a handled flip, for the position <<ra, dec>> the mount
\* reported when the flip began (RA in tenths of an hour).
FlipOrder(ra_dec) ==
  << <<"stop_guiding">>,
     <<"goto", ra_dec[1] + 30, ra_dec[2]>>,
     <<"goto", ra_dec[1], ra_dec[2]>>,
     <<"run_alignment">>,
     <<"start_guiding">>,
     <<"auto_focus">> >>

\* The control thread leaves the call of run_auto_focus in the flip.
LeavesFlipAutoFocus ==
  pc = "hmf_auto_focus" /\ pc' # pc /\ exit_cause' # "forced"

\* C13: a handled flip stops guiding, goes to RA + 3 h, goes back to the
\* position read, re-runs the alignment, restarts guiding and runs an
\* autofocus pass, in this order.
C13_FlipOrder ==
  [][/\ (mn'.ra_dec # None => IsPrefix(hist'.flip, FlipOrder(mn'.ra_dec)))
     /\ (LeavesFlipAutoFocus => hist'.flip = FlipOrder(mn.ra_dec))]_vars

\* C14: the flip handled in the imaging loop of main ends with control
\* back in the loop: leaving the autofocus call of the flip does not end
\* the process, so the pending exposure can still be captured.
C14_FlipReturnsToImaging ==
  [][LeavesFlipAutoFocus => (pc' # "exited" /\ exit_code' = -1)]_vars

\* The measurement taken at focus_min - backlash is valid and strictly below
\* the initial FWHM.
PreSweepSharper ==
  /\ af.phase = "pre"
  /\ af.meas # None
  /\ af.meas[2] < af.initial_fwhm

\* No set_focus of the call so far had its target in focus_min..focus_max.
NoSweepMove(a) ==
  \A k \in DOMAIN a.moves : a.moves[k] \notin a.focus_min..a.focus_max

\* C15: when the FWHM measured at focus_min - backlash is strictly less than
\* the initial FWHM, auto_focus returns the failure result (None, None, None)
\* from the test that follows the measurement, and no set_focus with a target
\* in focus_min..focus_max has been issued.
C15_PreSweepAbort ==
  [][(pc = "af_pre_check" /\ PreSweepSharper) =>
       /\ af'.result = "None3"
       /\ pc' = Head(stack)
       /\ stack' = Tail(stack)
       /\ af'.moves = <<af.focus_min - af.backlash>>
       /\ NoSweepMove(af')]_vars

\* C15 witness: auto_focus has returned its failure result after a pre-sweep
\* measurement sharper than the initial one, its only move being the one to
\* focus_min - backlash.
C15_Witness ==
  /\ pc = "alg_done"
  /\ af.result = "None3"
  /\ PreSweepSharper
  /\ af.moves = <<af.focus_min - af.backlash>>

\* The sweep is over and none of its positions gave a measurement.
SweepWithoutSample == af.phase = "fit" /\ af.focus_results = <<>>

\* C16: when no position of the sweep gave a valid FWHM, auto_focus fails:
\* the fit raises to the caller, nothing is returned as a best focus and no
\* further set_focus is issued; a completed call and the two final moves
\* always have at least one sample behind them.
C16_NoSampleFails ==
  [][/\ (pc = "af_fit" /\ SweepWithoutSample) =>
          /\ exit_cause' = "exception"
          /\ exit_code' = 1
          /\ af' = af
          /\ focuser_pos' = focuser_pos
     /\ (af'.result = "ok" \/ af'.phase = "final" \/ pc' = "af_final_pre") =>
          af'.focus_results # <<>>]_vars

\* C16 witness: a sweep of MaxSweep positions without a single measurement
\* has ended in the exception, the last move being the last sweep position.
C16_Witness ==
  /\ pc = "exited"
  /\ exit_cause = "exception"
  /\ SweepWithoutSample
  /\ Len(af.moves) = MaxSweep + 1
  /\ af.moves[Len(af.moves)] = af.focus_max
  /\ af.result = "pending"

\* The fit is about to be computed on three or more samples; Fitted is the
\* quadratic np.polyfit returns for them (its leading coefficient has the
\* sign of Fitted.da).
AtFit == pc = "af_fit" /\ Len(af.focus_results) >= 3
Fitted == polyfit2(af.focus_results, af.focus_min, af.focus_step)

\* C17: when the leading coefficient of the fitted quadratic is <= 0, zero
\* included, auto_focus goes on to its final moves with the swept position
\* of minimum observed FWHM as the target.
C17_ConcaveDownFallsBack ==
  [][(AtFit /\ Fitted.da <= 0) =>
       /\ pc' = "af_final_pre"
       /\ af'.best_focus = af.focus_at_min_fwhm
       /\ af'.focus_at_min_fwhm = af.focus_at_min_fwhm]_vars

\* auto_focus has issued its last set_focus after a fit on three or more
\* samples with leading coefficient > 0.
FinalMoveDone ==
  /\ pc = "af_plot"
  /\ Len(af.focus_results) >= 3
  /\ Fitted.da > 0

\* The vertex -b / (2a) of the fitted quadratic in focuser steps, as the
\* fraction VertexNum / VertexDen with VertexDen > 0 when a > 0.
VertexNum == 2 * Fitted.da * af.focus_min - af.focus_step * Fitted.db
VertexDen == 2 * Fitted.da

\* The last two set_focus targets of the call.
LastMove == af.moves[Len(af.moves)]
MoveBeforeLast == af.moves[Len(af.moves) - 1]

\* C18 as stated: with a > 0 the last position commanded is the vertex
\* rounded to the nearest integer, and the move before it goes to
\* focus_min - backlash.
C18_FinalMoveIsRoundedVertex ==
  FinalMoveDone =>
    /\ 2 * Abs(LastMove * VertexDen - VertexNum) <= VertexDen
    /\ MoveBeforeLast = af.focus_min - af.backlash

\* C18, amended: with a > 0 the last position commanded is the vertex
\* truncated toward zero (int(minima)), and the move before it goes to
\* focus_min - backlash.
C18_FinalMoveIsTruncatedVertex ==
  FinalMoveDone =>
    /\ Abs(LastMove) * VertexDen <= Abs(VertexNum)
    /\ Abs(VertexNum) < (Abs(LastMove) + 1) * VertexDen
    /\ (LastMove # 0 => (LastMove > 0) = (VertexNum > 0))
    /\ MoveBeforeLast = af.focus_min - af.backlash

\* C18 witness: the final move has been made for a vertex that lies in the
\* upper half between two integers.
C18_Witness ==
  /\ FinalMoveDone
  /\ 2 * (VertexNum % VertexDen) > VertexDen
  /\ MoveBeforeLast = af.focus_min - af.backlash
  /\ LastMove = af.best_focus

\* The positions of the samples auto_focus has recorded, in order.
SampledPositions == [k \in DOMAIN af.focus_results |-> af.focus_results[k][1]]

\* The positions the sweep has visited so far.
SweptPositions ==
  LET all == RangeSeq(af.focus_min, af.focus_max, af.focus_step)
  IN  SubSeq(all, 1, Len(all) - Len(af.focus_test_points))

\* C19: auto_focus records one sample for every swept position, the ones
\* without stars included, and a position without stars does not end the
\* sweep: when the loop test is reached the recorded positions are the
\* positions visited, and the fit starts only after the last position.
C19_SampleForEveryPosition ==
  /\ (pc = "af_sweep_loop" => SampledPositions = SweptPositions)
  /\ (pc = "af_fit" => af.focus_test_points = <<>>)

\* C20: the first set_focus of auto_focus goes to focus_min - backlash, and
\* every later one either goes there again or goes to a position strictly
\* above the one commanded just before it; so the sweep positions increase
\* and the final target, commanded right after focus_min - backlash, is not
\* below it.
C20_ApproachedFromBelow ==
  /\ (af.moves # <<>> => af.moves[1] = af.focus_min - af.backlash)
  /\ \A k \in 2..Len(af.moves) :
       \/ af.moves[k] = af.focus_min - af.backlash
       \/ af.moves[k] > af.moves[k - 1]

\* auto_focus has handed its failure result to run_auto_focus.
FocusFailureReturned == pc = "raf_unpack" /\ af.result = "None3"

\* C21: a failed auto_focus (initial FWHM not measurable, or the range
\* abort) is not fatal: run_auto_focus returns to main, which goes on.
C21_FocusFailureNotFatal ==
  [][(FocusFailureReturned /\ pc' # pc /\ exit_cause' # "forced") =>
       /\ pc' = Head(stack)
       /\ exit_code' = -1]_vars

\* C22: when the focus interval has elapsed the imaging loop runs the
\* autofocus procedure before it goes on to the dither test and the capture.
C22_RefocusWhenIntervalElapsed ==
  [][(pc = "m_refocus" /\ pc' # pc /\ exit_cause' # "forced") =>
       pc' = "raf_filter"]_vars

\* The classification by first match, on the two raw status sets.
FirstMatch(ra_status, de_status) ==
  IF <<"RAGoto", "Ok">> \in ra_status \/ <<"DEGoto", "Ok">> \in de_status
    THEN "Goto"
  ELSE IF {<<"RARunning", "Ok">>, <<"RAGoto", "Busy">>,
           <<"RAHighspeed", "Busy">>} \subseteq ra_status
    THEN "Tracking"
  ELSE IF <<"RARunning", "Ok">> \in ra_status \/ <<"DERunning", "Ok">> \in de_status
    THEN "Slewing"
  ELSE "Idle"

\* C23: of the flags get_mount_state returns at most one is true; the state
\* the main loop reports is the first match of goto slew, tracking, manual
\* slew, idle; both are functions of the raw status sets alone.
C23_MountStateFirstMatch ==
  /\ amf.pc \in {"report", "coords"} =>
       /\ Cardinality({x \in {"manual_slew", "goto_slew", "tracking"} :
                         amf.flags[x]}) <= 1
       /\ amf.flags = get_mount_state(amf.raw.ra_status, amf.raw.de_status)
  /\ amf.pc = "coords" =>
       amf.mount_state = FirstMatch(amf.raw.ra_status, amf.raw.de_status)

\* C23 witness: RAGoto=Busy, RARunning=Ok, RAHighspeed=Busy together with
\* DERunning=Ok has been reported as tracking, not as a manual slew.
C23_Witness ==
  /\ amf.pc = "coords"
  /\ amf.mount_state = "Tracking"
  /\ <<"DERunning", "Ok">> \in amf.raw.de_status
  /\ amf.flags = [manual_slew |-> FALSE, goto_slew |-> FALSE, tracking |-> TRUE]

\* The hour angle is in (-12 h, 12 h].
HaInRange(ha) == -120 < ha /\ ha <= 120

\* The time to flip has been computed in the monitor's loop from an hour
\* angle in range.
TimeToFlipComputed ==
  /\ amf.pc \in {"flip", "altitude", "sleep"}
  /\ HaInRange(amf.ha)

\* C24: for an hour angle in (-12, 12], a flip angle >= 0 and the pier side
\* East or West the time to flip is not negative, is
\* (12 + angle - ha) * 3600 on East and max(0, (angle - ha) * 3600) on West,
\* in the monitor's loop and in get_time_to_flip alike, and on East it is
\* smaller for every larger hour angle.
C24_TimeToFlip ==
  TimeToFlipComputed =>
    /\ amf.time_to_flip >= 0
    /\ amf.time_to_flip =
         get_time_to_flip(amf.ra, amf.lst, amf.pier_side, amf.meridian_flip_angle)
    /\ amf.pier_side = "East" =>
         /\ amf.time_to_flip = (120 + amf.meridian_flip_angle - amf.ha) * 360
         /\ \A ra \in MonitorRa, lst \in MonitorLst :
              (HaInRange(hour_angle(ra, lst)) /\ hour_angle(ra, lst) > amf.ha) =>
                get_time_to_flip(ra, lst, "East", amf.meridian_flip_angle)
                  < amf.time_to_flip
    /\ amf.pier_side = "West" =>
         amf.time_to_flip =
           IF amf.meridian_flip_angle - amf.ha > 0
             THEN (amf.meridian_flip_angle - amf.ha) * 360 ELSE 0

\* C24 witness: on the West side, past the flip angle, the time to flip is
\* zero and the flip has been commanded.
C24_Witness ==
  /\ TimeToFlipComputed
  /\ amf.pier_side = "West"
  /\ amf.ha > amf.meridian_flip_angle
  /\ amf.time_to_flip = 0
  /\ amf.cmd = "flip"

\* C25 for the monitor and for get_time_to_flip: with lst and ra in
\* [0, 24 h) the hour angle used for the flip timing is in (-12 h, 12 h].
C25_HourAngleWrapped ==
  amf.pc \in {"pier", "time_to_flip", "flip", "altitude", "sleep"} =>
    /\ HaInRange(amf.ha)
    /\ HaInRange(hour_angle(amf.ra, amf.lst))

\* C26: when get_pier_side yields Unknown the flip test does not report a
\* flip as due: the loop goes on to the focus test and no flip is started.
C26_UnknownPierSideNoFlip ==
  [][(pc = "m_flip_check" /\ hist'.pier_side = "Unknown") =>
       pc' = "m_focus_check"]_vars

\* The steps of main that only read device properties (IndiClient.read):
\* the polls of unpark and park, the mount log, the flip test, the altitude.
ReadLabels == {"m_unpark_wait", "m_log_state", "m_state", "m_flip_check",
               "m_alt", "m_park_wait"}

\* C27: a failed or timed-out device read does not end the session process:
\* no step that only reads the device exits on the command's failure.
C27_FailedReadNotFatal ==
  [][(pc \in ReadLabels) => (exit_cause' # "cmd_fail")]_vars

\* C28: the operator's abort at the disk-space prompt ends the process with
\* code 1 straight from the prompt, with no device connected or commanded;
\* a session that leaves the imaging loop on the termination flag or the
\* altitude limit and parks ends with code 0.
C28_ExitCodes ==
  /\ exit_cause = "declined" =>
       /\ exit_code = 1
       /\ ~dev.unparked
       /\ dev.parks = 0
       /\ hist.init_align = "pending"
       /\ al = AlignIdle
       /\ af = AutoFocusIdle
       /\ focuser_pos = StartFocus[1]
       /\ child = "none"
  /\ exit_cause = "normal" =>
       /\ exit_code = 0
       /\ dev.parks = 1

\* C28 witness: the process has ended on the operator's abort with code 1,
\* the mount neither unparked nor parked.
C28_Witness ==
  /\ pc = "exited"
  /\ exit_cause = "declined"
  /\ exit_code = 1
  /\ ~dev.unparked
  /\ dev.parks = 0

\* The guider has just failed to start, and the control thread takes its
\* next step without a command failing and without a forced exit.
StepAfterGuideFailure ==
  /\ hist.guide_start = "failed"
  /\ pc \in {"m_log_state", "hmf_start_guiding", "hmf_auto_focus"}
  /\ pc' # pc
  /\ exit_cause' \notin {"forced", "cmd_fail"}

\* C29: when start_guiding fails in run_alignment or after a meridian flip
\* the session does not abort: the control thread goes on toward imaging.
C29_GuideFailureNotFatal ==
  [][StepAfterGuideFailure => pc' # "exited"]_vars

\* An alignment iteration has issued its goto and not yet its sync.
GotoWithoutSync ==
  /\ Len(al.iter_cmds) > 0
  /\ \A k \in 1..Len(al.iter_cmds) : al.iter_cmds[k] # "sync"

\* C30: whenever the termination signals arrive, a goto issued in an
\* alignment iteration is followed by that iteration's sync: no termination
\* request ends the session between a goto and its sync.
C30_GotoSyncPairNeverSplit ==
  (pc = "exited" /\ exit_cause = "forced") => ~GotoWithoutSync

\* IndiFocuser.set_focus's default max_error.
FocusMaxError == 5

\* The capture of an alignment iteration starts.
AlignCaptureStarts == pc = "align_capture" /\ pc' = "align_solve"

\* The capture of the measurement at sweep position f starts.
SweepCaptureStarts ==
  pc = "ms_capture" /\ pc' = "ms_detect" /\ Head(stack) = "af_record"

\* C31: a capture starts only when the motion before it has completed: in
\* align_to_object the mount's slew has finished within tolerance, in
\* auto_focus the focuser is within max_error of the position f measured.
C31_CaptureAfterMotionComplete ==
  [][/\ AlignCaptureStarts => al.slew = "finished"
     /\ SweepCaptureStarts => Abs(focuser_pos - af.f) <= FocusMaxError]_vars

\* The guider call has returned to its caller.
GuiderReturned == ph.pc = "returned"

\* The last event received is the success the operation waits for.
GuiderSucceeded ==
  /\ Len(ph.events) > 0
  /\ LET last == ph.events[Len(ph.events)]
     IN  \/ last = Event("SettleDone", 0)
         \/ ph.op = "start_guiding" /\ last.Event = "GuideStep"

\* C32: start_guiding and dither return a boolean on every path: True
\* exactly when the guider reported SettleDone with status 0 (or, for
\* start_guiding, a GuideStep) before the timeout, and False on a settle
\* failure, a calibration failure or a timeout.
C32_GuiderCallsReturnBoolean ==
  GuiderReturned =>
    /\ ph.result \in {"True", "False"}
    /\ ph.result = "True" <=> GuiderSucceeded

\* C33: during imaging a dither is commanded once every dither_period
\* captures: there are never dither_period consecutive captures none of which
\* has a dither command before it, and after a dither, settled or failed,
\* the capture that follows is started.
C33_DitherEveryPeriod ==
  [][/\ StartsExposure => hist'.undithered < args.dither_period
     /\ (pc = "m_dither" /\ pc' # pc /\ exit_cause' # "forced")
          => pc' = "m_capture"]_vars

\* ra_hours in [0, 24) and dec_degrees in [-90, 90], in the model's units.
ValidCoordinates(ra, dec) ==
  /\ 0 <= ra /\ ra < 240
  /\ -324000 <= dec /\ dec <= 324000

\* C34: every coordinate passed to a mount goto during the meridian flip,
\* the intermediate point included, has ra in [0, 24) h and dec in
\* [-90, 90] deg when the coordinates reported by the mount have.
C34_GotoCoordinatesInRange ==
  \A k \in 1..Len(hist.flip) :
    hist.flip[k][1] = "goto" => ValidCoordinates(hist.flip[k][2], hist.flip[k][3])

\* auto_focus has returned (None, None, None).
AutoFocusFailed == af.result = "None3"

\* C35: after an auto_focus call that fails (initial FWHM unmeasurable, or
\* the abort at focus_min - backlash) the focuser is at the position it had
\* when auto_focus was called.
C35_FailedFocusRestoresPosition ==
  AutoFocusFailed => focuser_pos = af.initial_focus

\* C36: get_image_filename returns the name with the lowest index that does
\* not exist at the time of the call, and raises when every name exists; so
\* no capture is directed at a file written by an earlier completed capture
\* of the session.
C36_LowestFreeImageName ==
  /\ fs.pc = "named" =>
       /\ fs.image_file \in ImageIndices \ fs.existing
       /\ \A j \in ImageIndices : j < fs.image_file => j \in fs.existing
       /\ fs.image_file \notin fs.written
  /\ fs.pc = "raised" => fs.existing = ImageIndices

\* A name is chosen above a file that was there before the session, after two
\* captures of the session have written theirs.
C36_Witness ==
  /\ fs.pc = "named"
  /\ fs.image_file = 3
  /\ fs.written = {0, 2}
  /\ fs.existing = {0, 1, 2}

\* Where the control thread is while capture_image has not returned.
InCaptureImage == pc \in {"cap_wait", "cap_pgrep"}

\* C37: capture_image returns to the control loop only when the exposure
\* duration has elapsed and the forked child's capture is over, so the
\* control thread is nowhere else while a capture is in progress.
C37_ReturnsAfterCapture ==
  /\ child = "running" => (InCaptureImage \/ pc = "exited")
  /\ pc = "m_alt" => (child = "done" /\ ci.elapsed >= ci.duration)

\* capture_image has returned from a capture that outlasted the exposure
\* duration.
C37_Witness ==
  /\ pc = "m_alt"
  /\ child = "done"
  /\ ci.duration > 0 /\ ci.elapsed = ci.duration

\* This step commands a mount goto: in align_to_object or in the flip.
IssuesGoto ==
  \/ pc = "align_goto" /\ pc' = "align_capture"
  \/ pc = "hmf_flip" /\ pc' = "hmf_goto_back"
  \/ pc = "hmf_goto_back" /\ pc' = "hmf_align"

\* This step sends the guider its start command.
IssuesStartGuiding == hist.guider # "start" /\ hist'.guider = "start"

\* C38: whenever the session commands a mount goto, the last command sent to
\* the guider is a stop; guiding is started again only after the last sync
\* of the alignment (every goto of the alignment has had its sync).
C38_GuidingStoppedWhileSlewing ==
  [][/\ IssuesGoto => hist.guider = "stop"
     /\ IssuesStartGuiding =>
          /\ pc \in {"ra_start_guiding", "hmf_start_guiding"}
          /\ pc = "ra_start_guiding" => (al.syncs > 0 /\ al.syncs = al.gotos)]_vars

\* During the re-alignment after a meridian flip a goto has been commanded
\* with the guider stopped.
C38_Witness ==
  /\ pc = "align_capture"
  /\ "hmf_start_guiding" \in {stack[k] : k \in 1..Len(stack)}
  /\ hist.guider = "stop"
  /\ al.gotos > 0

\* The commands of the current poll have been decided.
PollDecided == amf.pc \in {"altitude", "sleep"}

\* C39: in the monitor loop a flip goto is issued on a poll only if the mount
\* was classified Tracking on that poll and time_to_flip <= 0, tracking is
\* stopped only if it was classified Tracking and the altitude is below
\* min_altitude, and no command is sent on a poll classified Goto, Slewing
\* or Idle.
C39_MonitorCommandsOnlyWhenTracking ==
  /\ (PollDecided /\ amf.cmd = "flip") =>
       (amf.mount_state = "Tracking" /\ amf.time_to_flip <= 0)
  /\ (amf.pc = "sleep" /\ amf.cmd = "stop_tracking") =>
       (amf.mount_state = "Tracking" /\ amf.alt < amf.min_altitude)
  /\ (PollDecided /\ amf.mount_state \in {"Goto", "Slewing", "Idle"}) =>
       amf.cmd = ""

\* A poll that found the mount tracking with the flip due has issued the
\* flip goto.
C39_Witness ==
  /\ amf.pc = "altitude"
  /\ amf.cmd = "flip"
  /\ amf.mount_state = "Tracking"
  /\ amf.time_to_flip = 0

\* The control thread is in the wait loop of IndiMount.unpark or park.
InParkWait == pc \in {"m_unpark_wait", "m_park_wait"}

\* C40: IndiMount.park and IndiMount.unpark terminate, in simulate mode as
\* well: a session that has entered one of the two wait loops leaves it.
C40_ParkAndUnparkTerminate == InParkWait ~> ~InParkWait

====
